---- MODULE Spec2Model ----
(***************************************************************************)
(* Lifted query processing for probabilistic UCQs (Dalvi-Suciu dichotomy)  *)
(* and the hierarchical fast path (small dichotomy theorem).               *)
(*                                                                         *)
(* Logic expressions are records tagged by "type":                         *)
(*   atom         [type, functor, args]      FunctionApplication           *)
(*   and / or     [type, formulas]           Conjunction / Disjunction     *)
(*   ex           [type, head, body]         ExistentialPredicate          *)
(*   implication  [type, consequent, antecedent]                           *)
(* Terms are strings: the members of ConstantTerms are Constant terms,     *)
(* every other string is a Symbol (a variable).                            *)
(* Plans are records tagged by "type" as well (Translate, Projection,      *)
(* NaturalJoin, Union, WeightedNaturalJoin, DisjointProjection,            *)
(* IndependentProjection, NonLiftable); a raised exception is the record   *)
(* [type |-> "Raise", exception |-> name].                                 *)
(***************************************************************************)
EXTENDS Integers, Sequences, FiniteSets, TLC

VARIABLES
    pc,                 \* position of the operation under way
    call_rule,          \* the logic expression handed to the operation
    call_symbol_table,  \* predicate symbol -> relation kind
    shattered_query,    \* solve_succ_query: the query after shattering
    call_result,        \* the plan (or raised exception) the operation produced
    outcome             \* what the caller of the entry point observes

vars == <<pc, call_rule, call_symbol_table, shattered_query, call_result, outcome>>

None == [type |-> "None"]

-----------------------------------------------------------------------------
(* Generic helpers on sequences and sets.                                  *)

Range(s) == {s[i] : i \in DOMAIN s}

RECURSIVE SetToSeq(_)
SetToSeq(S) ==
    IF S = {} THEN <<>>
    ELSE LET e == CHOOSE e \in S : TRUE IN <<e>> \o SetToSeq(S \ {e})

\* the sequence f as a tuple, every element computed once
Tuple(f) == f \o <<>>

RECURSIVE Flatten(_)
Flatten(ss) == IF ss = <<>> THEN <<>> ELSE Head(ss) \o Flatten(Tail(ss))

\* s without the repetitions of its elements, first occurrences kept in order
RECURSIVE DedupFrom(_, _)
DedupFrom(s, seen) ==
    IF s = <<>> THEN <<>>
    ELSE IF Head(s) \in seen THEN DedupFrom(Tail(s), seen)
    ELSE <<Head(s)>> \o DedupFrom(Tail(s), seen \cup {Head(s)})

Dedup(s) == DedupFrom(s, {})

\* the sub-sequence of s at the ascending indices of the set idxs (1-based)
SubSeqAt(s, idxs) ==
    LET keep == [i \in DOMAIN s |-> i \in idxs]
        F[i \in 0..Len(s)] ==
            IF i = 0 THEN <<>>
            ELSE IF keep[i] THEN Append(F[i - 1], s[i]) ELSE F[i - 1]
    IN F[Len(s)]

-----------------------------------------------------------------------------
(* Expression model.                                                       *)

ConstantTerms == {"a", "b"}

IsSymbol(t) == t \notin ConstantTerms

Atom(functor, args) == [type |-> "atom", functor |-> functor, args |-> args]
Conjunction(formulas) == [type |-> "and", formulas |-> formulas]
Disjunction(formulas) == [type |-> "or", formulas |-> formulas]
ExistentialPredicate(head, body) == [type |-> "ex", head |-> head, body |-> body]
Implication(consequent, antecedent) ==
    [type |-> "implication", consequent |-> consequent, antecedent |-> antecedent]

IsNary(f) == f.type \in {"and", "or"}

\* extract_logic_atoms: the atoms of an expression, in order of first occurrence
RECURSIVE AtomList(_)
AtomList(f) ==
    CASE f.type = "atom" -> <<f>>
      [] f.type = "ex" -> AtomList(f.body)
      [] f.type = "implication" -> AtomList(f.antecedent)
      [] OTHER -> Flatten(Tuple([i \in DOMAIN f.formulas |-> AtomList(f.formulas[i])]))

extract_logic_atoms(f) == Dedup(AtomList(f))

AtomVariables(atom) == {t \in Range(atom.args) : IsSymbol(t)}

\* extract_logic_free_variables
RECURSIVE extract_logic_free_variables(_)
extract_logic_free_variables(f) ==
    CASE f.type = "atom" -> AtomVariables(f)
      [] f.type = "ex" -> extract_logic_free_variables(f.body) \ {f.head}
      [] OTHER ->
           UNION {extract_logic_free_variables(f.formulas[i]) : i \in DOMAIN f.formulas}

\* the variables bound by an existential anywhere in f
RECURSIVE BoundVariables(_)
BoundVariables(f) ==
    CASE f.type = "atom" -> {}
      [] f.type = "ex" -> {f.head} \cup BoundVariables(f.body)
      [] OTHER -> UNION {BoundVariables(f.formulas[i]) : i \in DOMAIN f.formulas}

\* MakeExistentialsImplicit: every existential is replaced by its body
RECURSIVE MakeExistentialsImplicit(_)
MakeExistentialsImplicit(f) ==
    CASE f.type = "atom" -> f
      [] f.type = "ex" -> MakeExistentialsImplicit(f.body)
      [] OTHER ->
           [f EXCEPT !.formulas =
               Tuple([i \in DOMAIN f.formulas |-> MakeExistentialsImplicit(f.formulas[i])])]

RECURSIVE WrapExistentials(_, _)
WrapExistentials(vs, f) ==
    IF vs = <<>> THEN f
    ELSE WrapExistentials(Tail(vs), ExistentialPredicate(Head(vs), f))

\* add_existentials_except: quantify every free variable not in variables
add_existentials_except(f, variables) ==
    WrapExistentials(SetToSeq(extract_logic_free_variables(f) \ variables), f)

\* RemoveTrivialOperations: a conjunction or disjunction of one formula is
\* that formula
RECURSIVE RTO(_)
RTO(f) ==
    CASE f.type = "atom" -> f
      [] f.type = "ex" -> ExistentialPredicate(f.head, RTO(f.body))
      [] OTHER ->
           LET fs == Tuple([i \in DOMAIN f.formulas |-> RTO(f.formulas[i])])
           IN IF Len(fs) = 1 THEN fs[1] ELSE [f EXCEPT !.formulas = fs]

\* CollapseConjunctions / CollapseDisjunctions: nested operators of the same
\* type are merged into their parent
RECURSIVE Collapse(_, _)
Collapse(f, type) ==
    CASE f.type = "atom" -> f
      [] f.type = "ex" -> ExistentialPredicate(f.head, Collapse(f.body, type))
      [] OTHER ->
           LET fs == Tuple([i \in DOMAIN f.formulas |-> Collapse(f.formulas[i], type)])
               parts == Tuple([i \in DOMAIN fs |->
                            IF f.type = type /\ fs[i].type = type
                            THEN fs[i].formulas ELSE <<fs[i]>>])
           IN [f EXCEPT !.formulas = Flatten(parts)]

CollapseConjunctions(f) == Collapse(f, "and")
CollapseDisjunctions(f) == Collapse(f, "or")

\* GuaranteeConjunction / GuaranteeDisjunction
GuaranteeConjunction(f) == IF f.type = "and" THEN f ELSE Conjunction(<<f>>)
GuaranteeDisjunction(f) == IF f.type = "or" THEN f ELSE Disjunction(<<f>>)

\* convert_rule_to_ucq: the body of the rule with the variables that are not
\* in the head existentially quantified
convert_rule_to_ucq(implication) ==
    RTO(add_existentials_except(RTO(implication.antecedent),
                                {t \in Range(implication.consequent) : IsSymbol(t)}))

-----------------------------------------------------------------------------
(* Graph analysis.                                                         *)

MinOf(S) == CHOOSE m \in S : \A k \in S : m <= k

RECURSIVE Ascending(_)
Ascending(S) == IF S = {} THEN <<>> ELSE <<MinOf(S)>> \o Ascending(S \ {MinOf(S)})

\* inner loop of connected_components: component_follow is a stack
RECURSIVE FollowComponent(_, _, _)
FollowComponent(adjacency_matrix, component, component_follow) ==
    IF component_follow = <<>> THEN component
    ELSE LET idx == component_follow[Len(component_follow)]
             rest == SubSeq(component_follow, 1, Len(component_follow) - 1)
             idxs == {j \in DOMAIN adjacency_matrix[idx] :
                         adjacency_matrix[idx][j] # 0} \ component
         IN FollowComponent(adjacency_matrix, component \cup idxs,
                            rest \o Ascending(idxs))

\* the outer loop, were only the popped node taken out of node_idxs
RECURSIVE ComponentsLoopDroppingOnlyIdx(_, _, _)
ComponentsLoopDroppingOnlyIdx(adjacency_matrix, node_idxs, components) ==
    IF node_idxs = {} THEN components
    ELSE LET idx == MinOf(node_idxs)
             component == FollowComponent(adjacency_matrix, {idx}, <<idx>>)
         IN ComponentsLoopDroppingOnlyIdx(adjacency_matrix, node_idxs \ {idx},
                                          Append(components, component))

\* outer loop of connected_components: node_idxs.pop() takes the least index
\* (the order in which CPython pops a set of small integers)
RECURSIVE ComponentsLoop(_, _, _)
ComponentsLoop(adjacency_matrix, node_idxs, components) ==
    IF node_idxs = {} THEN components
    ELSE LET idx == MinOf(node_idxs)
             component == FollowComponent(adjacency_matrix, {idx}, <<idx>>)
         IN ComponentsLoop(adjacency_matrix, node_idxs \ component,
                           Append(components, component))

\* connected_components: the adjacency matrix is indexed from 0
connected_components(adjacency_matrix) ==
    ComponentsLoop(adjacency_matrix, DOMAIN adjacency_matrix, <<>>)

FunctorsOf(f) == {a.functor : a \in Range(AtomList(f))}

\* the graph of the sub-formulas, were two of them linked by a shared
\* variable instead of a shared predicate symbol
shared_variable_graph(expression) ==
    LET n == Len(expression.formulas)
    IN [i \in 0..(n - 1) |-> [j \in 0..(n - 1) |->
          IF i # j /\ extract_logic_free_variables(expression.formulas[i + 1])
                          \cap extract_logic_free_variables(expression.formulas[j + 1]) # {}
          THEN 1 ELSE 0]]

\* the graph, were only the entry (i, i + 1 + j) set and not its mirror
symbol_co_occurence_graph_without_mirror(expression) ==
    LET n == Len(expression.formulas)
    IN [i \in 0..(n - 1) |-> [j \in 0..(n - 1) |->
          IF i < j /\ FunctorsOf(expression.formulas[i + 1])
                          \cap FunctorsOf(expression.formulas[j + 1]) # {}
          THEN 1 ELSE 0]]

\* symbol_co_occurence_graph: entry (i, j) is 1 iff sub-formulas i and j
\* share a predicate symbol
symbol_co_occurence_graph(expression) ==
    LET n == Len(expression.formulas)
    IN [i \in 0..(n - 1) |-> [j \in 0..(n - 1) |->
          IF i # j /\ FunctorsOf(expression.formulas[i + 1])
                          \cap FunctorsOf(expression.formulas[j + 1]) # {}
          THEN 1 ELSE 0]]

\* variable_co_occurrence_graph, restricted to the variables in shared
variable_co_occurrence_graph(formulas, shared) ==
    LET n == Len(formulas)
    IN [i \in 0..(n - 1) |-> [j \in 0..(n - 1) |->
          IF i # j /\ extract_logic_free_variables(formulas[i + 1])
                          \cap extract_logic_free_variables(formulas[j + 1])
                          \cap shared # {}
          THEN 1 ELSE 0]]

\* the operators that hold the sub-formulas of each component, in ascending
\* index order
ComponentOperators(expression, components) ==
    Tuple([c \in DOMAIN components |->
          [type |-> expression.type,
           formulas |-> SubSeqAt(expression.formulas,
                                 {i + 1 : i \in components[c]})]])

\* symbol_connected_components: one operator of the expression's type per
\* component
symbol_connected_components(expression) ==
    ComponentOperators(expression,
        connected_components(symbol_co_occurence_graph(expression)))

-----------------------------------------------------------------------------
(* Normal forms of a UCQ.  A leaf is an atom or an existentially closed     *)
(* conjunction of atoms connected through its quantified variables.        *)

Cross2(A, B) == Flatten(Tuple([i \in DOMAIN A |-> Tuple([j \in DOMAIN B |-> A[i] \o B[j]])]))

RECURSIVE CrossAll(_)
CrossAll(ss) == IF ss = <<>> THEN << <<>> >> ELSE Cross2(Head(ss), CrossAll(Tail(ss)))

\* a quantifier-free formula as a list of conjunctive queries (lists of atoms)
RECURSIVE MatrixDNF(_)
MatrixDNF(m) ==
    CASE m.type = "atom" -> << <<m>> >>
      [] m.type = "or" -> Flatten(Tuple([i \in DOMAIN m.formulas |-> MatrixDNF(m.formulas[i])]))
      [] OTHER -> CrossAll(Tuple([i \in DOMAIN m.formulas |-> MatrixDNF(m.formulas[i])]))

LeafOf(bound, atoms) ==
    WrapExistentials(
        SetToSeq(bound \cap UNION {AtomVariables(atoms[i]) : i \in DOMAIN atoms}),
        IF Len(atoms) = 1 THEN atoms[1] ELSE Conjunction(atoms))

\* PushExistentialsDown on a conjunctive query: one leaf per set of atoms
\* connected through the quantified variables
ComponentLeaves(bound, atoms, components) ==
    Tuple([c \in DOMAIN components |->
          LeafOf(bound, SubSeqAt(atoms, {i + 1 : i \in components[c]}))])

PushExistentialsDownCQ(bound, atoms) ==
    ComponentLeaves(bound, atoms,
        connected_components(variable_co_occurrence_graph(atoms, bound)))

\* an existential block as a disjunction of conjunctions of leaves
BlockLeaves(bound, cqs) ==
    Disjunction(Tuple([k \in DOMAIN cqs |->
          Conjunction(PushExistentialsDownCQ(bound, Dedup(cqs[k])))]))

PushExistentialsDownBlock(f) ==
    BlockLeaves(BoundVariables(f), MatrixDNF(MakeExistentialsImplicit(f)))

RECURSIVE PushExistentialsDown(_)
PushExistentialsDown(f) ==
    CASE f.type = "atom" -> f
      [] f.type = "ex" -> PushExistentialsDownBlock(f)
      [] OTHER ->
           [f EXCEPT !.formulas =
               Tuple([i \in DOMAIN f.formulas |-> PushExistentialsDown(f.formulas[i])])]

\* DistributeDisjunctions: the clauses (lists of leaves) of the CNF of a tree
RECURSIVE TreeCNF(_)
TreeCNF(t) ==
    CASE t.type = "and" -> Flatten(Tuple([i \in DOMAIN t.formulas |-> TreeCNF(t.formulas[i])]))
      [] t.type = "or" -> CrossAll(Tuple([i \in DOMAIN t.formulas |-> TreeCNF(t.formulas[i])]))
      [] OTHER -> << <<t>> >>

\* DistributeConjunctions: the disjuncts (lists of leaves) of the DNF of a tree
RECURSIVE TreeDNF(_)
TreeDNF(t) ==
    CASE t.type = "or" -> Flatten(Tuple([i \in DOMAIN t.formulas |-> TreeDNF(t.formulas[i])]))
      [] t.type = "and" -> CrossAll(Tuple([i \in DOMAIN t.formulas |-> TreeDNF(t.formulas[i])]))
      [] OTHER -> << <<t>> >>

\* a homomorphism maps the quantified variables of leaf into the terms of
\* atoms so that every atom of leaf lands on one of atoms
HomomorphismInto(leaf, atoms) ==
    LET bound == BoundVariables(leaf)
        terms == UNION {Range(a.args) : a \in atoms}
    IN \E h \in [bound -> terms] :
          \A a \in Range(AtomList(leaf)) :
             [a EXCEPT !.args = Tuple([i \in DOMAIN a.args |->
                 IF a.args[i] \in bound THEN h[a.args[i]] ELSE a.args[i]])] \in atoms

\* containment of conjunctive queries: every answer of q1 is an answer of q2
LeafContained(q1, q2) == HomomorphismInto(q2, Range(AtomList(q1)))

ConjunctionContained(d1, d2) ==
    \A j \in DOMAIN d2 :
       HomomorphismInto(d2[j], UNION {Range(AtomList(d1[i])) : i \in DOMAIN d1})

DisjunctionContained(c1, c2) ==
    \A i \in DOMAIN c1 : \E j \in DOMAIN c2 : LeafContained(c1[i], c2[j])

\* the elements of s that no other element makes redundant; of two elements
\* that make each other redundant the first is kept
Irredundant(s, Redundant(_, _)) ==
    SubSeqAt(s, {i \in DOMAIN s :
        ~ \E j \in DOMAIN s :
             /\ j # i
             /\ Redundant(s[i], s[j])
             /\ (j < i \/ ~ Redundant(s[j], s[i]))})

LeafImplied(l1, l2) == LeafContained(l2, l1)
ClauseImplied(c1, c2) == DisjunctionContained(c2, c1)

\* minimize_component_disjunction: a disjunct contained in another is dropped
minimize_component_disjunction(leaves) == Irredundant(Dedup(leaves), LeafContained)

\* minimize_component_conjunction: a conjunct implied by another is dropped
minimize_component_conjunction(leaves) == Irredundant(Dedup(leaves), LeafImplied)

NaryOrSingle(type, formulas) ==
    IF Len(formulas) = 1 THEN formulas[1] ELSE [type |-> type, formulas |-> formulas]

NaryOrSingleEach(type, lists) ==
    Tuple([i \in DOMAIN lists |-> NaryOrSingle(type, lists[i])])

MinimizedDisjunctions(clauses) ==
    Tuple([i \in DOMAIN clauses |-> minimize_component_disjunction(clauses[i])])

MinimizedConjunctions(disjuncts) ==
    Tuple([i \in DOMAIN disjuncts |-> minimize_component_conjunction(disjuncts[i])])

\* minimize_ucq_in_cnf: a conjunction of clauses, each a leaf or a disjunction
\* of leaves, with no redundant leaf and no redundant clause
minimize_ucq_in_cnf(query) ==
    Conjunction(NaryOrSingleEach("or",
        Irredundant(Dedup(MinimizedDisjunctions(TreeCNF(PushExistentialsDown(query)))),
                    ClauseImplied)))

\* minimize_ucq_in_dnf: a disjunction of conjunctive queries, each a leaf or a
\* conjunction of leaves, with no redundant leaf and no redundant disjunct
minimize_ucq_in_dnf(query) ==
    Disjunction(NaryOrSingleEach("and",
        Irredundant(Dedup(MinimizedConjunctions(TreeDNF(PushExistentialsDown(query)))),
                    ConjunctionContained)))

-----------------------------------------------------------------------------
(* Relation kinds and plan nodes.                                          *)

DeterministicFactSet == "DeterministicFactSet"
ProbabilisticFactSet == "ProbabilisticFactSet"
ProbabilisticChoiceSet == "ProbabilisticChoiceSet"

is_atom_a_deterministic_relation(atom, st) ==
    atom.functor \in DOMAIN st /\ st[atom.functor] = DeterministicFactSet

is_atom_a_probabilistic_choice_relation(atom, st) ==
    atom.functor \in DOMAIN st /\ st[atom.functor] = ProbabilisticChoiceSet

is_probabilistic_atom_with_constants_in_all_key_positions(atom, st) ==
    \/ is_atom_a_probabilistic_choice_relation(atom, st)
    \/ /\ ~ is_atom_a_deterministic_relation(atom, st)
       /\ atom.functor \in DOMAIN st
       /\ st[atom.functor] = ProbabilisticFactSet
       /\ \A i \in DOMAIN atom.args : ~ IsSymbol(atom.args[i])

extract_nonkey_variables(atom, st) ==
    IF is_atom_a_probabilistic_choice_relation(atom, st)
    THEN AtomVariables(atom) ELSE {}

\* TranslateToNamedRA: the base relational translation of a formula
Translate(formula) == [type |-> "Translate", formula |-> formula]
NonLiftable(formula) == [type |-> "NonLiftable", formula |-> formula]
Projection(relation, attributes) ==
    [type |-> "Projection", relation |-> relation, attributes |-> attributes]
IndependentProjection(relation, attributes) ==
    [type |-> "IndependentProjection", relation |-> relation, attributes |-> attributes]
DisjointProjection(relation, attributes) ==
    [type |-> "DisjointProjection", relation |-> relation, attributes |-> attributes]
NaturalJoin(relation_left, relation_right) ==
    [type |-> "NaturalJoin", relation_left |-> relation_left,
     relation_right |-> relation_right]
Union(relation_left, relation_right) ==
    [type |-> "Union", relation_left |-> relation_left,
     relation_right |-> relation_right]
WeightedNaturalJoin(relations, weights) ==
    [type |-> "WeightedNaturalJoin", relations |-> relations, weights |-> weights]
Raise(exception) == [type |-> "Raise", exception |-> exception]
Pair(has_plan, plan) == [type |-> "Pair", has_plan |-> has_plan, plan |-> plan]

IsRaise(p) == p.type = "Raise"

UnaryTypes == {"Projection", "IndependentProjection", "DisjointProjection"}
BinaryTypes == {"NaturalJoin", "Union"}

\* the walker, were its case for n-ary operations missing
RECURSIVE is_pure_lifted_plan_without_nary(_)
is_pure_lifted_plan_without_nary(query) ==
    CASE query.type = "NonLiftable" -> FALSE
      [] query.type \in BinaryTypes ->
           is_pure_lifted_plan_without_nary(query.relation_left)
               /\ is_pure_lifted_plan_without_nary(query.relation_right)
      [] query.type \in UnaryTypes ->
           is_pure_lifted_plan_without_nary(query.relation)
      [] OTHER -> TRUE

\* IsPureLiftedPlan: the walker's cases in the order of its patterns
RECURSIVE is_pure_lifted_plan(_)
is_pure_lifted_plan(query) ==
    CASE query.type = "NonLiftable" -> FALSE
      [] query.type = "WeightedNaturalJoin" ->
           \A i \in DOMAIN query.relations : is_pure_lifted_plan(query.relations[i])
      [] query.type \in BinaryTypes ->
           is_pure_lifted_plan(query.relation_left)
               /\ is_pure_lifted_plan(query.relation_right)
      [] query.type \in UnaryTypes -> is_pure_lifted_plan(query.relation)
      [] OTHER -> TRUE

-----------------------------------------------------------------------------
(* Separator variables.                                                    *)

\* the conjunctive queries of a DNF, each as the list of its leaves
DisjunctLeaves(query) ==
    Tuple([i \in DOMAIN query.formulas |->
        IF query.formulas[i].type = "and" THEN query.formulas[i].formulas
        ELSE <<query.formulas[i]>>])

\* the quantified variable occurrences <<disjunct, leaf, variable>> of a DNF
Occurrences(leaves) ==
    UNION {UNION {{<<i, k, v>> : v \in BoundVariables(leaves[i][k])}
                  : k \in DOMAIN leaves[i]} : i \in DOMAIN leaves}

\* two atoms have a unifier unless two different constants meet
Unifiable(a, b) ==
    /\ a.functor = b.functor
    /\ Len(a.args) = Len(b.args)
    /\ \A p \in DOMAIN a.args :
          (~ IsSymbol(a.args[p]) /\ ~ IsSymbol(b.args[p])) => a.args[p] = b.args[p]

\* occurrences n and m, of different disjuncts, sit at the same position of
\* two unifiable atoms
Linked(leaves, n, m) ==
    /\ n[1] # m[1]
    /\ \E a \in Range(AtomList(leaves[n[1]][n[2]])),
          b \in Range(AtomList(leaves[m[1]][m[2]])) :
          /\ Unifiable(a, b)
          /\ \E p \in DOMAIN a.args : a.args[p] = n[3] /\ b.args[p] = m[3]

RECURSIVE UnifiedClass(_, _, _)
UnifiedClass(leaves, all, class) ==
    IF {m \in all : \E n \in class : Linked(leaves, n, m)} \subseteq class
    THEN class
    ELSE UnifiedClass(leaves, all,
             class \cup {m \in all : \E n \in class : Linked(leaves, n, m)})

\* the first occurrence of a class: the least disjunct, then the least leaf
FirstOccurrence(class) ==
    CHOOSE m \in class : \A o \in class :
        m[1] < o[1] \/ (m[1] = o[1] /\ m[2] <= o[2])

OccurrenceName(first) ==
    first[3] \o "_" \o ToString(first[1]) \o "_" \o ToString(first[2])

\* the name given to all the occurrences unified with occurrence n
UnifiedName(leaves, all, n) ==
    OccurrenceName(FirstOccurrence(UnifiedClass(leaves, all, {n})))

\* the atoms of leaf k of disjunct i, its quantified variables renamed
RenameAtoms(leaves, all, i, k, bound, atoms) ==
    Tuple([n \in DOMAIN atoms |->
          [atoms[n] EXCEPT !.args = Tuple([p \in DOMAIN atoms[n].args |->
              IF atoms[n].args[p] \in bound
              THEN UnifiedName(leaves, all, <<i, k, atoms[n].args[p]>>)
              ELSE atoms[n].args[p]])]])

RenameLeaf(leaves, all, i, k) ==
    RenameAtoms(leaves, all, i, k,
                BoundVariables(leaves[i][k]), AtomList(leaves[i][k]))

\* the DNF matrix with every quantified variable under its unified name
UnifiedMatrix(leaves, all) ==
    Disjunction(Tuple([i \in DOMAIN leaves |->
        NaryOrSingle("and", Dedup(Flatten(
            Tuple([k \in DOMAIN leaves[i] |-> RenameLeaf(leaves, all, i, k)]))))]))

\* unify_existential_variables: the query in prenex form with a DNF matrix in
\* which the quantified variables that the disjuncts' atoms unify carry one
\* name; a query of a single disjunct is returned as it is
unify_existential_variables(query) ==
    IF ~ IsNary(query) \/ Len(query.formulas) < 2 THEN query
    ELSE add_existentials_except(
             UnifiedMatrix(DisjunctLeaves(query), Occurrences(DisjunctLeaves(query))),
             extract_logic_free_variables(query))

ProbabilisticAtoms(formula, st) ==
    SelectSeq(extract_logic_atoms(formula),
              LAMBDA atom : ~ is_atom_a_deterministic_relation(atom, st))

\* the loop body of extract_probabilistic_root_variables for one formula with
\* at least one probabilistic atom
RootVariablesAmong(probabilistic_atoms, st) ==
    {t \in Range(probabilistic_atoms[1].args) :
        \A n \in DOMAIN probabilistic_atoms :
            t \in Range(probabilistic_atoms[n].args)}
      \ UNION {Range(probabilistic_atoms[n].args) :
                 n \in {m \in DOMAIN probabilistic_atoms :
                          is_atom_a_probabilistic_choice_relation(
                              probabilistic_atoms[m], st)}}

\* the root variables of one formula, those of its choice atoms left out
RootVariablesOf(formula, st) ==
    RootVariablesAmong(ProbabilisticAtoms(formula, st), st)

\* the root variables shared by the formulas that have a probabilistic atom
CommonRootVariables(formulas, constraining, st) ==
    IF constraining = {} THEN {}
    ELSE {t \in RootVariablesOf(formulas[MinOf(constraining)], st) :
             \A i \in constraining : t \in RootVariablesOf(formulas[i], st)}

extract_probabilistic_root_variables(formulas, st) ==
    CommonRootVariables(formulas,
        {i \in DOMAIN formulas : Len(ProbabilisticAtoms(formulas[i], st)) > 0}, st)

PositionsOf(var, atom) == {i \in DOMAIN atom.args : atom.args[i] = var}

\* the for/else of find_separator_variables: the loop over the atoms ends
\* without break iff no atom's positions of var are disjoint from those of an
\* earlier atom of the same functor
KeepsItsPosition(var, all_atoms) ==
    \A n \in DOMAIN all_atoms : \A m \in 1..(n - 1) :
        all_atoms[m].functor = all_atoms[n].functor =>
            PositionsOf(var, all_atoms[n]) \cap PositionsOf(var, all_atoms[m]) # {}

\* the candidates that keep their position, the free variables left out
SeparatorVariablesOf(unified, exclude_variables, st) ==
    <<{var \in extract_probabilistic_root_variables(
                   IF IsNary(unified) THEN unified.formulas ELSE <<unified>>, st) :
          KeepsItsPosition(var, extract_logic_atoms(unified))} \ exclude_variables,
      unified>>

\* find_separator_variables: the separator variables and the unified query
find_separator_variables(query, st) ==
    SeparatorVariablesOf(unify_existential_variables(query),
                         extract_logic_free_variables(query), st)

-----------------------------------------------------------------------------
(* Inclusion-exclusion.                                                    *)

\* every conjunctive query of d1 is contained in one of d2
DNFContained(d1, d2) ==
    \A i \in DOMAIN d1 : \E j \in DOMAIN d2 : ConjunctionContained(d1[i], d2[j])

\* containment of unions of conjunctive queries: every answer of q1 is an
\* answer of q2
UCQContained(q1, q2) ==
    DNFContained(TreeDNF(PushExistentialsDown(q1)), TreeDNF(PushExistentialsDown(q2)))

\* the containment oracle: is_contained(q1, q2) holds iff q2 is contained in
\* q1, so that the elements recorded for a formula are those contained in it
is_contained(q1, q2) == UCQContained(q2, q1)

\* itertools.combinations(range(lo, n), r), in lexicographic order
RECURSIVE Combinations(_, _, _)
Combinations(lo, n, r) ==
    IF r = 0 THEN << <<>> >>
    ELSE IF lo > n THEN <<>>
    ELSE Tuple([c \in DOMAIN Combinations(lo + 1, n, r - 1) |->
             <<lo>> \o Combinations(lo + 1, n, r - 1)[c]])
         \o Combinations(lo + 1, n, r)

\* powerset: the index tuples of every subset, by size, then lexicographic
powerset(s) == Flatten(Tuple([r1 \in 1..(Len(s) + 1) |-> Combinations(1, Len(s), r1 - 1)]))

\* the body of the loops, were the container recorded for the contained
ContainmentStepRecordingContainer(formula_powerset, formula_containments, i0, i1) ==
    IF /\ formula_powerset[i0] \notin formula_containments[i1]
       /\ is_contained(formula_powerset[i0], formula_powerset[i1])
    THEN [formula_containments EXCEPT ![i1] =
             @ \cup ({formula_powerset[i0]}
                       \cup (formula_containments[i0] \ {formula_powerset[i1]}))]
    ELSE formula_containments

\* the body of the loops: the pair (i0, c0), (i1, c1)
ContainmentStep(formula_powerset, formula_containments, i0, i1) ==
    IF /\ formula_powerset[i0] \notin formula_containments[i1]
       /\ is_contained(formula_powerset[i0], formula_powerset[i1])
    THEN [formula_containments EXCEPT ![i0] =
             @ \cup ({formula_powerset[i1]}
                       \cup (formula_containments[i1] \ {formula_powerset[i0]}))]
    ELSE formula_containments

\* the pairs (i0, i1) that the loops visit, in order: for every i < j the
\* pair (i, j), then the pair (j, i)
ContainmentSteps(n) ==
    Flatten(Tuple([i \in 1..n |-> Flatten(Tuple([d \in 1..(n - i) |->
        << <<i, i + d>>, <<i + d, i>> >>]))]))

\* steps lo..hi of the loops, one after the other (the range is halved to
\* keep the evaluation shallow; the steps run in their order)
RECURSIVE ContainmentRun(_, _, _, _, _)
RECURSIVE ContainmentRest(_, _, _, _, _, _)
ContainmentRun(formula_powerset, steps, lo, hi, formula_containments) ==
    IF lo > hi THEN formula_containments
    ELSE IF lo = hi
    THEN ContainmentStep(formula_powerset, formula_containments,
                         steps[lo][1], steps[lo][2])
    ELSE ContainmentRest(formula_powerset, steps, ((lo + hi) \div 2) + 1, hi,
                         formula_containments,
                         ContainmentRun(formula_powerset, steps, lo, (lo + hi) \div 2,
                                        formula_containments))

\* the steps from lo on, after the steps before lo have turned before into half
ContainmentRest(formula_powerset, steps, lo, hi, before, half) ==
    IF half = before
    THEN ContainmentRun(formula_powerset, steps, lo, hi, before)
    ELSE ContainmentRun(formula_powerset, steps, lo, hi, half)

ContainmentLoop(formula_powerset) ==
    ContainmentRun(formula_powerset, ContainmentSteps(Len(formula_powerset)),
                   1, Len(formula_powerset) * (Len(formula_powerset) - 1),
                   Tuple([k \in DOMAIN formula_powerset |-> {}]))

\* the last index at which f occurs in the powerset
LastOccurrence(formula_powerset, f) ==
    CHOOSE i \in DOMAIN formula_powerset :
        /\ formula_powerset[i] = f
        /\ \A j \in DOMAIN formula_powerset : formula_powerset[j] = f => j <= i

\* the dictionary fcs of _formulas_weights: its keys in insertion order and,
\* for a formula that occurs more than once, the set of its last occurrence
ContainmentDictionary(formula_powerset, sets) ==
    [keys |-> Dedup(formula_powerset),
     sets |-> [f \in Range(formula_powerset) |->
                  sets[LastOccurrence(formula_powerset, f)]]]

FormulaContainments(formula_powerset) ==
    ContainmentDictionary(formula_powerset, ContainmentLoop(formula_powerset))

\* the formulas reachable from f through the recorded containments
RECURSIVE RecordedBelow(_, _)
RecordedBelow(fcs, frontier) ==
    LET more == frontier \cup UNION {fcs.sets[g] : g \in frontier}
    IN IF more = frontier THEN frontier ELSE RecordedBelow(fcs, more)

IsAcyclic(fcs) ==
    \A f \in DOMAIN fcs.sets : f \notin RecordedBelow(fcs, fcs.sets[f])

\* the weight, were it minus one minus the weights of the recorded formulas
RECURSIVE mobius_function_from_minus_one(_, _)
mobius_function_from_minus_one(formula, fcs) ==
    LET contained == SetToSeq(fcs.sets[formula])
        Sum[i \in 0..Len(contained)] ==
            IF i = 0 THEN -1
            ELSE Sum[i - 1] - mobius_function_from_minus_one(contained[i], fcs)
    IN Sum[Len(contained)]

\* mobius_function: res = -1, plus the weight of every recorded formula,
\* negated
RECURSIVE mobius_function(_, _)
mobius_function(formula, fcs) ==
    LET contained == SetToSeq(fcs.sets[formula])
        Sum[i \in 0..Len(contained)] ==
            IF i = 0 THEN -1 ELSE Sum[i - 1] + mobius_function(contained[i], fcs)
    IN -Sum[Len(contained)]

\* mobius_weights: one weight per key of the dictionary
mobius_weights(fcs) == Tuple([i \in DOMAIN fcs.keys |-> mobius_function(fcs.keys[i], fcs)])

\* formula_powerset of inclusion_exclusion_conjunction
FormulaPowerset(expression) ==
    LET subsets == powerset(expression.formulas)
        kept == SelectSeq(subsets, LAMBDA c : Len(c) # 0)
    IN Tuple([k \in DOMAIN kept |->
          IF Len(kept[k]) = 1 THEN expression.formulas[kept[k][1]]
          ELSE Disjunction(Tuple([m \in DOMAIN kept[k] |-> expression.formulas[kept[k][m]]]))])

-----------------------------------------------------------------------------
(* The lifting engine.  An exception raised by a nested call propagates:   *)
(* every operator returns the first Raise that one of its calls returns.   *)
(* The parameter up holds the arguments of the calls of dalvi_suciu_lift   *)
(* that are under way: a call whose arguments are among them never         *)
(* returns, which the interpreter ends with RecursionError.                *)

RECURSIVE Lift(_, _, _)

FirstRaise(plans) ==
    plans[MinOf({i \in DOMAIN plans : IsRaise(plans[i])})]

AnyRaise(plans) == \E i \in DOMAIN plans : IsRaise(plans[i])

\* reduce(operation, formulas[1:], formulas[0])
RECURSIVE Reduce(_, _, _)
Reduce(operation, acc, rest) ==
    IF rest = <<>> THEN acc
    ELSE Reduce(operation,
                [type |-> operation, relation_left |-> acc,
                 relation_right |-> Head(rest)],
                Tail(rest))

\* the plans of the components, joined by the operation
JoinedPlans(formulas, operation) ==
    IF AnyRaise(formulas) THEN FirstRaise(formulas)
    ELSE Reduce(operation, formulas[1], Tail(formulas))

components_plan(components, operation, st, up) ==
    JoinedPlans(Tuple([c \in DOMAIN components |-> Lift(components[c], st, up)]),
                operation)

WithNonZeroWeight(keys, weights) ==
    [formulas |-> SubSeqAt(keys, {i \in DOMAIN weights : weights[i] # 0}),
     weights |-> SubSeqAt(weights, {i \in DOMAIN weights : weights[i] # 0})]

\* the formulas of the powerset and their weights, were none dropped
SurvivingElementsWithZeroWeight(fcs) ==
    [formulas |-> fcs.keys, weights |-> mobius_weights(fcs)]

\* the formulas of the powerset with a non-zero weight, and their weights
SurvivingElements(fcs) == WithNonZeroWeight(fcs.keys, mobius_weights(fcs))

\* the weighted join of the plans of the surviving formulas
WeightedPlans(new_formulas, weights) ==
    IF AnyRaise(new_formulas) THEN FirstRaise(new_formulas)
    ELSE IF new_formulas = <<>> THEN Raise("ValueError")
    ELSE WeightedNaturalJoin(new_formulas, weights)

LiftSurviving(surviving, st, up) ==
    WeightedPlans(Tuple([i \in DOMAIN surviving.formulas |->
                      Lift(surviving.formulas[i], st, up)]),
                  surviving.weights)

\* mobius_function does not return on a cyclic dictionary
LiftWeighted(fcs, st, up) ==
    IF ~ IsAcyclic(fcs) THEN Raise("RecursionError")
    ELSE LiftSurviving(SurvivingElements(fcs), st, up)

inclusion_exclusion_conjunction(expression, st, up) ==
    LiftWeighted(FormulaContainments(FormulaPowerset(expression)), st, up)

\* the expression, were the separator variables quantified again as well
SeparatorSubqueryClosingSeparators(expression, separator_variables) ==
    WrapExistentials(
        SetToSeq(extract_logic_free_variables(MakeExistentialsImplicit(expression))
                    \ extract_logic_free_variables(expression)),
        MakeExistentialsImplicit(expression))

\* the expression that separator_variable_plan lifts
SeparatorSubquery(expression, separator_variables) ==
    WrapExistentials(
        SetToSeq((extract_logic_free_variables(MakeExistentialsImplicit(expression))
                     \ extract_logic_free_variables(expression))
                    \ separator_variables),
        MakeExistentialsImplicit(expression))

\* the independent projection of a lifted relation on the attributes
ProjectedOn(relation, attributes) ==
    IF IsRaise(relation) THEN relation
    ELSE IndependentProjection(relation, attributes)

\* the separator-variable plan, were the separator variables kept among
\* the attributes of the projection
separator_variable_plan_keeping_separators(expression, separator_variables, st, up) ==
    ProjectedOn(Lift(SeparatorSubquery(expression, separator_variables), st, up),
                extract_logic_free_variables(expression) \cup separator_variables)

separator_variable_plan(expression, separator_variables, st, up) ==
    ProjectedOn(Lift(SeparatorSubquery(expression, separator_variables), st, up),
                extract_logic_free_variables(expression))

PlanFound(plan) == IF IsRaise(plan) THEN plan ELSE Pair(TRUE, plan)

\* has_separator_variables, given what find_separator_variables returns
SeparatedBy(found, st, up) ==
    IF Cardinality(found[1]) > 0
    THEN PlanFound(separator_variable_plan(found[2], found[1], st, up))
    ELSE Pair(FALSE, None)

has_separator_variables(query, st, up) ==
    SeparatedBy(find_separator_variables(query, st), st, up)

\* the atoms of a conjunctive query, existentials implicit
ConjunctiveQueryAtoms(conjunctive_query) ==
    GuaranteeConjunction(CollapseConjunctions(
        MakeExistentialsImplicit(conjunctive_query)))

AtomsWithConstantsInAllKeyPositions(query, st) ==
    {atom \in Range(query.formulas) :
        is_probabilistic_atom_with_constants_in_all_key_positions(atom, st)}

\* the table, were every symbol of it turned into a probabilistic fact
ReclassifiedEverySymbol(atoms, st) ==
    [s \in DOMAIN st |-> ProbabilisticFactSet]

\* the local copy of the symbol table, the matching atoms' symbols turned
\* into probabilistic facts
ReclassifiedTable(atoms, st) ==
    [s \in DOMAIN st |->
        IF s \in {atom.functor : atom \in atoms} THEN ProbabilisticFactSet ELSE st[s]]

ClosedOverNonKeys(query, free_variables, st) ==
    add_existentials_except(query,
        free_variables
            \cup UNION {extract_nonkey_variables(atom, st) :
                          atom \in AtomsWithConstantsInAllKeyPositions(query, st)})

\* the conjunctive query that disjoint_project_conjunctive_query lifts
DisjointProjectSubquery(conjunctive_query, st) ==
    ClosedOverNonKeys(ConjunctiveQueryAtoms(conjunctive_query),
                      extract_logic_free_variables(conjunctive_query), st)

DisjointProjected(plan, free_variables) ==
    IF IsRaise(plan) THEN plan
    ELSE Pair(TRUE, DisjointProjection(plan, free_variables))

\* disjoint_project_conjunctive_query, given the atoms with constants in all
\* their key positions
ProjectAtoms(conjunctive_query, atoms, st, up) ==
    IF atoms = {} THEN Pair(FALSE, None)
    ELSE IF \E atom \in atoms : st[atom.functor] # ProbabilisticChoiceSet
    THEN Raise("NeuroLangException")
    ELSE DisjointProjected(
             Lift(DisjointProjectSubquery(conjunctive_query, st),
                  ReclassifiedTable(atoms, st), up),
             extract_logic_free_variables(conjunctive_query))

disjoint_project_conjunctive_query(conjunctive_query, st, up) ==
    ProjectAtoms(conjunctive_query,
                 AtomsWithConstantsInAllKeyPositions(
                     ConjunctiveQueryAtoms(conjunctive_query), st),
                 st, up)

_get_disjuncts_containing_atom_with_all_key_attributes(ucq, st) ==
    {disjunct \in Range(ucq.formulas) :
        \E atom \in Range(GuaranteeConjunction(CollapseDisjunctions(
                        MakeExistentialsImplicit(disjunct))).formulas) :
            is_probabilistic_atom_with_constants_in_all_key_positions(atom, st)}

\* the three formulas that _apply_disjoint_project_ucq_rule lifts
DisjointProjectHead(disjunctive_query, disjunct) ==
    add_existentials_except(disjunct, extract_logic_free_variables(disjunctive_query))
DisjointProjectTail(disjunctive_query) ==
    add_existentials_except(Conjunction(SubSeq(disjunctive_query.formulas, 1, 1)),
                            extract_logic_free_variables(disjunctive_query))
DisjointProjectHeadAndTail(disjunctive_query) ==
    add_existentials_except(Conjunction(disjunctive_query.formulas),
                            extract_logic_free_variables(disjunctive_query))

\* _apply_disjoint_project_ucq_rule after its third, second and first call
AfterHeadAndTail(head_plan, tail_plan, head_and_tail_plan) ==
    IF IsRaise(head_and_tail_plan) THEN head_and_tail_plan
    ELSE IF head_and_tail_plan.type = "NonLiftable" THEN Pair(FALSE, None)
    ELSE Pair(TRUE, WeightedNaturalJoin(
             <<head_plan, tail_plan, head_and_tail_plan>>, <<1, 1, -1>>))

AfterTail(disjunctive_query, head_plan, tail_plan, st, up) ==
    IF IsRaise(tail_plan) THEN tail_plan
    ELSE IF tail_plan.type = "NonLiftable" THEN Pair(FALSE, None)
    ELSE AfterHeadAndTail(head_plan, tail_plan,
             Lift(DisjointProjectHeadAndTail(disjunctive_query), st, up))

AfterHead(disjunctive_query, head_plan, st, up) ==
    IF IsRaise(head_plan) THEN head_plan
    ELSE IF head_plan.type = "NonLiftable" THEN Pair(FALSE, None)
    ELSE AfterTail(disjunctive_query, head_plan,
             Lift(DisjointProjectTail(disjunctive_query), st, up), st, up)

_apply_disjoint_project_ucq_rule(disjunctive_query, disjunct, st, up) ==
    AfterHead(disjunctive_query,
              Lift(DisjointProjectHead(disjunctive_query, disjunct), st, up), st, up)

\* the loop over the matching disjuncts assigns the result of each
\* application and returns nothing: the function ends without a return
\* statement, which hands None to its caller
LoopOverDisjuncts(applied) ==
    IF \E result \in applied : IsRaise(result)
    THEN CHOOSE result \in applied : IsRaise(result)
    ELSE None

ApplyToEach(disjunctive_query, matching_disjuncts, st, up) ==
    IF matching_disjuncts = {} THEN Pair(FALSE, None)
    ELSE LoopOverDisjuncts(
             {_apply_disjoint_project_ucq_rule(disjunctive_query, disjunct, st, up) :
                 disjunct \in matching_disjuncts})

disjoint_project_disjunctive_query(disjunctive_query, st, up) ==
    ApplyToEach(disjunctive_query,
                _get_disjuncts_containing_atom_with_all_key_attributes(
                    disjunctive_query, st),
                st, up)

disjoint_project(rule_dnf, st, up) ==
    IF Len(rule_dnf.formulas) = 1
    THEN disjoint_project_conjunctive_query(rule_dnf.formulas[1], st, up)
    ELSE disjoint_project_disjunctive_query(rule_dnf, st, up)

\* the rule that dalvi_suciu_lift dispatches on
LiftedRule(rule) ==
    RTO(IF rule.type = "implication" THEN convert_rule_to_ucq(rule) ELSE rule)

AllAtomsDeterministic(rule, st) ==
    \A atom \in Range(extract_logic_atoms(rule)) :
        is_atom_a_deterministic_relation(atom, st)

\* the deterministic branch, were it to project on the variables that are
\* free once the existentials are implicit (bound variables kept)
DeterministicBranchKeepingBound(rule) ==
    Projection(Translate(MakeExistentialsImplicit(rule)),
               extract_logic_free_variables(MakeExistentialsImplicit(rule)))

\* the branch of dalvi_suciu_lift for a rule over deterministic relations
DeterministicBranch(rule) ==
    Projection(Translate(MakeExistentialsImplicit(rule)),
               extract_logic_free_variables(rule))

\* dalvi_suciu_lift after disjoint_project, after has_separator_variables and
\* after the connected components of the DNF
AfterDisjointProject(rule, projected) ==
    IF IsRaise(projected) THEN projected
    ELSE IF projected = None THEN Raise("TypeError")
    ELSE IF projected.has_plan THEN projected.plan
    ELSE NonLiftable(rule)

AfterSeparator(rule, rule_dnf, separated, st, up) ==
    IF IsRaise(separated) THEN separated
    ELSE IF separated.has_plan THEN separated.plan
    ELSE AfterDisjointProject(rule, disjoint_project(rule_dnf, st, up))

LiftDNF(rule, rule_dnf, st, up) ==
    IF Len(symbol_connected_components(rule_dnf)) > 1
    THEN components_plan(symbol_connected_components(rule_dnf), "Union", st, up)
    ELSE AfterSeparator(rule, rule_dnf,
                        has_separator_variables(rule_dnf, st, up), st, up)

\* the branches of dalvi_suciu_lift after the CNF tests
LiftThroughDNF(rule, st, up) == LiftDNF(rule, minimize_ucq_in_dnf(rule), st, up)

\* dalvi_suciu_lift on the connected components of the CNF
LiftCNF(rule, rule_cnf, st, up) ==
    IF Len(symbol_connected_components(rule_cnf)) > 1
    THEN components_plan(symbol_connected_components(rule_cnf), "NaturalJoin", st, up)
    ELSE IF Len(rule_cnf.formulas) > 1
    THEN inclusion_exclusion_conjunction(rule_cnf, st, up)
    ELSE LiftThroughDNF(rule, st, up)

\* dalvi_suciu_lift on the rule it dispatches on
LiftRule(rule, st, up) ==
    IF rule.type = "atom" THEN Translate(rule)
    ELSE IF AllAtomsDeterministic(rule, st) THEN DeterministicBranch(rule)
    ELSE LiftCNF(rule, minimize_ucq_in_cnf(rule), st, up)

Lift(rule0, st, up0) ==
    IF <<rule0, st>> \in up0 THEN Raise("RecursionError")
    ELSE LiftRule(LiftedRule(rule0), st, up0 \cup {<<rule0, st>>})

dalvi_suciu_lift(rule0, st) == Lift(rule0, st, {})

-----------------------------------------------------------------------------
(* The calls of dalvi_suciu_lift that one call makes itself: groups of     *)
(* calls made one after the other, each group with the kinds of result     *)
(* that keep the calls after it from being made.                           *)

CallGroup(calls, ending) == [calls |-> calls, ending |-> ending]

CallList(formulas, st) == Tuple([i \in DOMAIN formulas |-> <<formulas[i], st>>])

\* the calls of a group that are made: those that no earlier call ends
MadeCalls(group) ==
    {group.calls[j] : j \in {i \in DOMAIN group.calls :
        \A k \in 1..(i - 1) :
            dalvi_suciu_lift(group.calls[k][1], group.calls[k][2]).type
                \notin group.ending}}

ApplyRuleCalls(disjunctive_query, disjunct, st) ==
    CallGroup(<< <<DisjointProjectHead(disjunctive_query, disjunct), st>>,
                 <<DisjointProjectTail(disjunctive_query), st>>,
                 <<DisjointProjectHeadAndTail(disjunctive_query), st>> >>,
              {"Raise", "NonLiftable"})

ConjunctiveQueryCalls(conjunctive_query, atoms, st) ==
    IF atoms = {} \/ \E atom \in atoms : st[atom.functor] # ProbabilisticChoiceSet
    THEN {}
    ELSE {CallGroup(<< <<DisjointProjectSubquery(conjunctive_query, st),
                         ReclassifiedTable(atoms, st)>> >>, {"Raise"})}

DisjointProjectCalls(rule_dnf, st) ==
    IF Len(rule_dnf.formulas) = 1
    THEN ConjunctiveQueryCalls(rule_dnf.formulas[1],
             AtomsWithConstantsInAllKeyPositions(
                 ConjunctiveQueryAtoms(rule_dnf.formulas[1]), st), st)
    ELSE {ApplyRuleCalls(rule_dnf, disjunct, st) :
            disjunct \in _get_disjuncts_containing_atom_with_all_key_attributes(
                             rule_dnf, st)}

SeparatorCalls(rule_dnf, found, st) ==
    IF found[1] # {}
    THEN {CallGroup(<< <<SeparatorSubquery(found[2], found[1]), st>> >>, {"Raise"})}
    ELSE DisjointProjectCalls(rule_dnf, st)

CallsWithDNF(rule_dnf, st) ==
    IF Len(symbol_connected_components(rule_dnf)) > 1
    THEN {CallGroup(CallList(symbol_connected_components(rule_dnf), st), {"Raise"})}
    ELSE SeparatorCalls(rule_dnf, find_separator_variables(rule_dnf, st), st)

DNFCalls(rule, st) == CallsWithDNF(minimize_ucq_in_dnf(rule), st)

InclusionExclusionCalls(fcs, st) ==
    IF ~ IsAcyclic(fcs) THEN {}
    ELSE {CallGroup(CallList(SurvivingElements(fcs).formulas, st), {"Raise"})}

CallsWithCNF(rule, rule_cnf, st) ==
    IF Len(symbol_connected_components(rule_cnf)) > 1
    THEN {CallGroup(CallList(symbol_connected_components(rule_cnf), st), {"Raise"})}
    ELSE IF Len(rule_cnf.formulas) > 1
    THEN InclusionExclusionCalls(FormulaContainments(FormulaPowerset(rule_cnf)), st)
    ELSE DNFCalls(rule, st)

PlannedCalls(rule, st) ==
    IF rule.type = "atom" \/ AllAtomsDeterministic(rule, st) THEN {}
    ELSE CallsWithCNF(rule, minimize_ucq_in_cnf(rule), st)

NestedCalls(rule0, st) ==
    UNION {MadeCalls(group) : group \in PlannedCalls(LiftedRule(rule0), st)}

-----------------------------------------------------------------------------
(* Queries and symbol tables of the model.                                 *)

MaxAtoms == 3
MaxDisjuncts == 2

AtomPool ==
    {Atom("R", <<"x", "y">>), Atom("R", <<"x", "a">>), Atom("R", <<"b", "y">>),
     Atom("S", <<"x">>), Atom("S", <<"y">>), Atom("T", <<"y">>)}

Symbols == {a.functor : a \in AtomPool}

\* a conjunction of n atoms is the conjunction itself, of one atom the atom
ConjunctiveQueries(n) ==
    {NaryOrSingle("and", SetToSeq(A)) :
        A \in {B \in SUBSET AtomPool : Cardinality(B) \in 1..n}}

\* the conjunctive queries that the disjunctive queries are made of
DisjunctList ==
    <<Atom("S", <<"x">>), Atom("T", <<"y">>), Atom("R", <<"x", "y">>),
      Atom("R", <<"x", "a">>),
      Conjunction(<<Atom("R", <<"x", "y">>), Atom("S", <<"x">>)>>),
      Conjunction(<<Atom("R", <<"x", "y">>), Atom("T", <<"y">>)>>),
      Conjunction(<<Atom("S", <<"x">>), Atom("T", <<"y">>)>>),
      Conjunction(<<Atom("R", <<"b", "y">>), Atom("T", <<"y">>)>>),
      Conjunction(<<Atom("R", <<"x", "y">>), Atom("R", <<"x", "a">>),
                    Atom("R", <<"b", "y">>)>>)>>

Reverse(s) == [i \in DOMAIN s |-> s[Len(s) + 1 - i]]

\* the disjunctions of up to n disjuncts of the list, in the order of the
\* list and in the opposite order
DisjunctiveQueries(n) ==
    LET chosen == {SubSeqAt(DisjunctList, I) :
                      I \in {J \in SUBSET DOMAIN DisjunctList : Cardinality(J) \in 2..n}}
    IN {Disjunction(d) : d \in chosen} \cup {Disjunction(Reverse(d)) : d \in chosen}

Bodies == ConjunctiveQueries(MaxAtoms) \cup DisjunctiveQueries(MaxDisjuncts)

Heads == {<<>>, <<"x">>}

\* the head variables of a query occur in every disjunct of its body
IsSafe(h, b) ==
    LET disjuncts == IF b.type = "or" THEN b.formulas ELSE <<b>>
    IN \A i \in DOMAIN disjuncts :
          Range(h) \subseteq extract_logic_free_variables(disjuncts[i])

Queries == {q \in {Implication(h, b) : h \in Heads, b \in Bodies} :
               IsSafe(q.consequent, q.antecedent)}

Kinds == {DeterministicFactSet, ProbabilisticFactSet, ProbabilisticChoiceSet}

SymbolTables ==
    {st \in [Symbols -> Kinds] :
        \/ \A s \in Symbols : st[s] = st["R"]
        \/ st["R"] = ProbabilisticFactSet /\ st["S"] = ProbabilisticFactSet
        \/ st["R"] = DeterministicFactSet /\ st["T"] = ProbabilisticFactSet}

-----------------------------------------------------------------------------
(* SpecLift: dalvi_suciu_lift on a query, and on the calls it makes.       *)

InitLift ==
    /\ pc = "call"
    /\ call_rule \in Queries
    /\ call_symbol_table \in SymbolTables
    /\ shattered_query = None
    /\ call_result = None
    /\ outcome = None

\* one call of dalvi_suciu_lift
LiftCall ==
    /\ pc = "call"
    /\ call_result' = dalvi_suciu_lift(call_rule, call_symbol_table)
    /\ pc' = "lifted"
    /\ UNCHANGED <<call_rule, call_symbol_table, shattered_query, outcome>>

\* follow one of the calls that the call under way makes
LiftNested ==
    /\ pc = "lifted"
    /\ \E call \in NestedCalls(call_rule, call_symbol_table) :
          /\ call_rule' = call[1]
          /\ call_symbol_table' = call[2]
    /\ call_result' = None
    /\ pc' = "call"
    /\ UNCHANGED <<shattered_query, outcome>>

NextLift == LiftCall \/ LiftNested

SpecLift == InitLift /\ [][NextLift]_vars

-----------------------------------------------------------------------------
(* Properties of dalvi_suciu_lift, stated on SpecLift.                      *)

\* the formula that the call under way dispatches on
ReceivedRule == LiftedRule(call_rule)

ReceivedFreeVariables == extract_logic_free_variables(ReceivedRule)

RECURSIVE ContainsNonLiftable(_)
ContainsNonLiftable(plan) ==
    \/ plan.type = "NonLiftable"
    \/ plan.type \in UnaryTypes /\ ContainsNonLiftable(plan.relation)
    \/ plan.type \in BinaryTypes
         /\ (ContainsNonLiftable(plan.relation_left)
               \/ ContainsNonLiftable(plan.relation_right))
    \/ plan.type = "WeightedNaturalJoin"
         /\ \E i \in DOMAIN plan.relations : ContainsNonLiftable(plan.relations[i])

\* the columns of the relation that a plan denotes
RECURSIVE PlanAttributes(_)
PlanAttributes(plan) ==
    CASE plan.type \in {"Translate", "NonLiftable"} ->
           extract_logic_free_variables(plan.formula)
      [] plan.type \in UnaryTypes -> plan.attributes
      [] plan.type \in BinaryTypes ->
           PlanAttributes(plan.relation_left) \cup PlanAttributes(plan.relation_right)
      [] plan.type = "WeightedNaturalJoin" ->
           UNION {PlanAttributes(plan.relations[i]) : i \in DOMAIN plan.relations}
      [] OTHER -> {}

\* every atom of the received rule is over a deterministic relation
OnlyDeterministicAtoms ==
    \A atom \in Range(AtomList(ReceivedRule)) :
        call_symbol_table[atom.functor] = DeterministicFactSet

\* the number of the first rule of the dispatcher whose condition holds
FirstApplicableRule ==
    LET rule == ReceivedRule
        rule_cnf == minimize_ucq_in_cnf(rule)
        rule_dnf == minimize_ucq_in_dnf(rule)
        matching ==
            IF Len(rule_dnf.formulas) = 1
            THEN AtomsWithConstantsInAllKeyPositions(
                     ConjunctiveQueryAtoms(rule_dnf.formulas[1]), call_symbol_table)
            ELSE _get_disjuncts_containing_atom_with_all_key_attributes(
                     rule_dnf, call_symbol_table)
    IN CASE rule.type = "atom" -> 1
         [] OnlyDeterministicAtoms -> 2
         [] Len(symbol_connected_components(rule_cnf)) > 1 -> 3
         [] Len(rule_cnf.formulas) > 1 -> 4
         [] Len(symbol_connected_components(rule_dnf)) > 1 -> 5
         [] find_separator_variables(rule_dnf, call_symbol_table)[1] # {} -> 6
         [] matching # {} -> 7
         [] OTHER -> 8

\* the kinds of node that each rule of the dispatcher returns
NodesOfRule ==
    <<{"Translate"}, {"Projection"}, {"NaturalJoin"}, {"WeightedNaturalJoin"},
      {"Union"}, {"IndependentProjection"},
      {"DisjointProjection", "WeightedNaturalJoin", "NonLiftable"},
      {"NonLiftable"}>>

\* C1: every call of dalvi_suciu_lift returns the plan of the first rule of
\* the fixed order (atom, deterministic, CNF components, inclusion-exclusion,
\* DNF components, separator variable, disjoint projection) whose condition
\* holds, and returns NonLiftable(formula) exactly when none of them applies.
C1_FirstApplicableRuleDecides ==
    pc = "lifted" =>
        /\ ~ IsRaise(call_result)
        /\ call_result.type \in NodesOfRule[FirstApplicableRule]
        /\ FirstApplicableRule = 8 => call_result = NonLiftable(ReceivedRule)
        /\ call_result.type = "NonLiftable" => FirstApplicableRule \in {7, 8}

\* C2: a call on a formula all of whose atoms are over deterministic
\* relations returns a plan without NonLiftable: the translation of the atom,
\* or a Projection of the translation whose attributes are exactly the free
\* variables of the formula.
C2_DeterministicNeverNonLiftable ==
    pc = "lifted" /\ OnlyDeterministicAtoms =>
        /\ ~ IsRaise(call_result)
        /\ ~ ContainsNonLiftable(call_result)
        /\ call_result.type \in {"Translate", "Projection"}
        /\ call_result.type = "Translate" => ReceivedRule.type = "atom"
        /\ call_result.type = "Projection" =>
              /\ call_result.attributes = ReceivedFreeVariables
              /\ call_result.relation.type = "Translate"
        /\ PlanAttributes(call_result) = ReceivedFreeVariables

\* a deterministic formula with a bound and a free variable was projected
C2_Witness ==
    /\ pc = "lifted" /\ OnlyDeterministicAtoms
    /\ call_result.type = "Projection"
    /\ ReceivedFreeVariables # {}
    /\ BoundVariables(ReceivedRule) # {}
    /\ ReceivedRule.type = "ex" /\ ReceivedRule.body.type \in {"and", "or"}

\* C10: the attributes of a projecting node that a call returns (Projection,
\* IndependentProjection, DisjointProjection) are exactly the free variables
\* of the formula the call received.
C10_ProjectingNodeKeepsFreeVariables ==
    pc = "lifted" /\ call_result.type \in UnaryTypes =>
        call_result.attributes = ReceivedFreeVariables

\* a separator-variable plan whose formula has a free variable and a
\* separator variable that is not free
C10_Witness ==
    /\ pc = "lifted"
    /\ call_result.type = "IndependentProjection"
    /\ ReceivedFreeVariables # {}
    /\ find_separator_variables(minimize_ucq_in_dnf(ReceivedRule),
                                call_symbol_table)[1] \ ConstantTerms # {}

\* the conjuncts of the formula handed to the call, quantifiers aside
TopLevelConjuncts ==
    LET body == IF call_rule.type = "implication" THEN call_rule.antecedent
                ELSE call_rule
        matrix == MakeExistentialsImplicit(RTO(body))
    IN IF matrix.type = "and" THEN matrix.formulas ELSE <<>>

HasVariableDisjointConjuncts ==
    \E i, j \in DOMAIN TopLevelConjuncts :
        /\ i # j
        /\ extract_logic_free_variables(TopLevelConjuncts[i])
             \cap extract_logic_free_variables(TopLevelConjuncts[j]) = {}

\* the clauses of the minimised CNF of the received rule
ReceivedClauses == minimize_ucq_in_cnf(ReceivedRule).formulas

\* the clauses that a chain of shared predicate symbols links to those of group
RECURSIVE LinkedClauses(_)
LinkedClauses(group) ==
    LET more == {j \in DOMAIN ReceivedClauses :
                    \E i \in group : FunctorsOf(ReceivedClauses[i])
                                       \cap FunctorsOf(ReceivedClauses[j]) # {}}
    IN IF more \subseteq group THEN group ELSE LinkedClauses(group \cup more)

ClauseGroups == {LinkedClauses({i}) : i \in DOMAIN ReceivedClauses}

\* the operands of a left-deep tree of n - 1 NaturalJoin nodes, left to right
RECURSIVE JoinOperands(_, _)
JoinOperands(plan, n) ==
    IF n <= 1 \/ plan.type # "NaturalJoin" THEN <<plan>>
    ELSE Append(JoinOperands(plan.relation_left, n - 1), plan.relation_right)

C16_NoCallReentersItself ==
    pc = "lifted" => call_result # Raise("RecursionError")

\* a call on a conjunction of two atoms of one probabilistic-choice relation
\* came back, through inclusion-exclusion and the disjunctive
\* disjoint-projection rule, to the disjunction it was lifting
C16_ReentryThroughDisjointProjection ==
    /\ pc = "lifted" /\ call_result = Raise("RecursionError")
    /\ ReceivedRule.type = "or"
    /\ \E call \in NestedCalls(call_rule, call_symbol_table) :
          \E again \in NestedCalls(call[1], call[2]) :
             /\ LiftedRule(again[1]) = ReceivedRule
             /\ again[2] = call_symbol_table

\* the call under way went through inclusion-exclusion, and one of the
\* elements that it lifted was lifted to NonLiftable
ElementLiftedToNonLiftable ==
    /\ pc = "lifted" /\ FirstApplicableRule = 4 /\ ~ IsRaise(call_result)
    /\ \E call \in NestedCalls(call_rule, call_symbol_table) :
          dalvi_suciu_lift(call[1], call[2]).type = "NonLiftable"

\* C17: when inclusion-exclusion lifts an element of non-zero weight to
\* NonLiftable, inclusion_exclusion_conjunction, and with it the call of
\* dalvi_suciu_lift, returns NonLiftable itself.
C17_NonLiftableElementGivesNonLiftable ==
    ElementLiftedToNonLiftable => call_result.type = "NonLiftable"

\* what the call returns in that case: a WeightedNaturalJoin that has the
\* NonLiftable among its components, which is_pure_lifted_plan refuses
C17_NonLiftableKeptAsComponent ==
    ElementLiftedToNonLiftable =>
        /\ call_result.type = "WeightedNaturalJoin"
        /\ \E i \in DOMAIN call_result.relations :
              call_result.relations[i].type = "NonLiftable"
        /\ ~ is_pure_lifted_plan(call_result)

\* the elements of inclusion-exclusion for the formula of the call under
\* way, the containments recorded for them, and their weights
ReceivedPowerset == FormulaPowerset(minimize_ucq_in_cnf(ReceivedRule))

ReceivedContainments == FormulaContainments(ReceivedPowerset)

\* the weight of f among the weights of the keys of the dictionary
WeightOf(fcs, weights, f) ==
    weights[CHOOSE i \in DOMAIN fcs.keys : fcs.keys[i] = f]

RECURSIVE SumOfWeights(_, _, _)
SumOfWeights(fcs, weights, formulas) ==
    IF formulas = {} THEN 0
    ELSE LET f == CHOOSE g \in formulas : TRUE
         IN WeightOf(fcs, weights, f) + SumOfWeights(fcs, weights, formulas \ {f})

\* every weight is base minus the sum of the weights of the recorded formulas
WeightsFrom(base, fcs, weights) ==
    \A f \in Range(fcs.keys) :
        /\ WeightOf(fcs, weights, f) = base - SumOfWeights(fcs, weights, fcs.sets[f])
        /\ fcs.sets[f] = {} => WeightOf(fcs, weights, f) = base

\* the call under way went through inclusion-exclusion
InclusionExclusionRan == pc = "lifted" /\ FirstApplicableRule = 4

\* C18 as stated: the weight of every element f is minus one minus the sum
\* of the weights of the elements recorded as contained in f, so that an
\* element with no recorded containment has weight -1.
C18_WeightIsMinusOneMinusSum ==
    InclusionExclusionRan =>
        LET fcs == ReceivedContainments
        IN IsAcyclic(fcs) => WeightsFrom(-1, fcs, mobius_weights(fcs))

\* C18, amended: the weight of every element f is one minus the sum of the
\* weights of the elements recorded as contained in f, so that an element
\* with no recorded containment has weight +1.
C18_WeightIsOneMinusSum ==
    InclusionExclusionRan =>
        LET fcs == ReceivedContainments
        IN IsAcyclic(fcs) => WeightsFrom(1, fcs, mobius_weights(fcs))

\* weights were computed for seven elements, of which one has no recorded
\* containment, one has weight 0 and one has a negative weight
C18_Witness ==
    /\ InclusionExclusionRan
    /\ LET fcs == ReceivedContainments
           weights == mobius_weights(fcs)
       IN /\ IsAcyclic(fcs)
          /\ Len(fcs.keys) = 7
          /\ \E f \in Range(fcs.keys) :
                fcs.sets[f] = {} /\ WeightOf(fcs, weights, f) = 1
          /\ \E f \in Range(fcs.keys) :
                fcs.sets[f] # {} /\ WeightOf(fcs, weights, f) = 0
          /\ \E f \in Range(fcs.keys) : WeightOf(fcs, weights, f) < 0

\* the element of inclusion-exclusion for the clauses at the indices chosen
ElementOf(clauses, chosen) ==
    IF Cardinality(chosen) = 1 THEN clauses[CHOOSE i \in chosen : TRUE]
    ELSE Disjunction(SubSeqAt(clauses, chosen))

\* the indices of the non-zero weights, in their order
NonZeroAt(weights) ==
    SubSeqAt([i \in DOMAIN weights |-> i], {i \in DOMAIN weights : weights[i] # 0})

\* the result of the call under way is the weighted join of the plans of
\* the elements at the indices kept, each with its weight, unless the call
\* for one of them raises
JoinsElementsAt(kept, formula_powerset, weights) ==
    IF \E j \in DOMAIN kept :
          IsRaise(dalvi_suciu_lift(formula_powerset[kept[j]], call_symbol_table))
    THEN IsRaise(call_result) /\ call_result.exception # "ValueError"
    ELSE /\ call_result.type = "WeightedNaturalJoin"
         /\ Len(call_result.relations) = Len(kept)
         /\ Len(call_result.weights) = Len(kept)
         /\ \A j \in DOMAIN kept :
               /\ call_result.relations[j] =
                     dalvi_suciu_lift(formula_powerset[kept[j]], call_symbol_table)
               /\ call_result.weights[j] = weights[kept[j]]
               /\ call_result.weights[j] # 0

\* C20: inclusion_exclusion_conjunction over k clauses considers exactly
\* the 2^k - 1 non-empty subsets of the clauses, a singleton as the clause
\* itself and a larger subset as the disjunction of its members, and returns
\* a WeightedNaturalJoin with one component per element of non-zero weight:
\* plans and weights have the same length, the i-th weight is that of the
\* i-th plan, no weight is 0 and the lists are not empty.
C20_OneComponentPerNonZeroElement ==
    InclusionExclusionRan =>
        LET formula_powerset == ReceivedPowerset
            fcs == ReceivedContainments
        IN /\ Len(formula_powerset) = 2 ^ Len(ReceivedClauses) - 1
           /\ Cardinality(Range(formula_powerset)) = Len(formula_powerset)
           /\ Range(formula_powerset) =
                 {ElementOf(ReceivedClauses, chosen) :
                     chosen \in SUBSET DOMAIN ReceivedClauses \ {{}}}
           /\ fcs.keys = formula_powerset
           /\ IsAcyclic(fcs)
           /\ NonZeroAt(mobius_weights(fcs)) # <<>>
           /\ JoinsElementsAt(NonZeroAt(mobius_weights(fcs)), formula_powerset,
                              mobius_weights(fcs))

\* inclusion-exclusion over three clauses returned a join of fewer than
\* seven plans, one of them with a negative weight
C20_Witness ==
    /\ InclusionExclusionRan /\ ~ IsRaise(call_result)
    /\ call_result.type = "WeightedNaturalJoin"
    /\ Len(ReceivedClauses) = 3
    /\ Len(call_result.relations) \in 2..6
    /\ \E i \in DOMAIN call_result.weights : call_result.weights[i] < 0

-----------------------------------------------------------------------------
(* Shattering.  An atom over a probabilistic-fact relation that has        *)
(* constant arguments is replaced by an atom, over the variables only, of  *)
(* the relation restricted to those constants.  The restricted relation of *)
(* R(x, a) is named "R:_a".                                                *)

FalseConstant == [type |-> "false"]

HasConstant(atom) == \E i \in DOMAIN atom.args : ~ IsSymbol(atom.args[i])

ConstantPositions(atom) == {i \in DOMAIN atom.args : ~ IsSymbol(atom.args[i])}

RECURSIVE ConstantPattern(_)
ConstantPattern(args) ==
    IF args = <<>> THEN ""
    ELSE (IF IsSymbol(Head(args)) THEN "_" ELSE Head(args))
             \o ConstantPattern(Tail(args))

ShatteredSymbol(atom) == atom.functor \o ":" \o ConstantPattern(atom.args)

\* the atoms that shattering replaces
AtomsToShatter(query, st) ==
    {atom \in Range(extract_logic_atoms(query.antecedent)) :
        st[atom.functor] = ProbabilisticFactSet /\ HasConstant(atom)}

\* two atoms of one probabilistic-fact relation, one of them with constants,
\* are shattered only if their constants are at the same positions and differ
IsEasilyShatterable(query, st) ==
    \A a1, a2 \in Range(extract_logic_atoms(query.antecedent)) :
        (/\ a1 # a2 /\ a1.functor = a2.functor
         /\ st[a1.functor] = ProbabilisticFactSet
         /\ (HasConstant(a1) \/ HasConstant(a2)))
        => /\ ConstantPositions(a1) = ConstantPositions(a2)
           /\ \E i \in ConstantPositions(a1) : a1.args[i] # a2.args[i]

RECURSIVE ShatterFormula(_, _)
ShatterFormula(f, st) ==
    CASE f.type = "atom" ->
           IF st[f.functor] = ProbabilisticFactSet /\ HasConstant(f)
           THEN Atom(ShatteredSymbol(f), SelectSeq(f.args, IsSymbol))
           ELSE f
      [] f.type = "ex" -> ExistentialPredicate(f.head, ShatterFormula(f.body, st))
      [] OTHER ->
           [f EXCEPT !.formulas =
               Tuple([i \in DOMAIN f.formulas |-> ShatterFormula(f.formulas[i], st)])]

\* the kinds of the relations of a shattered query
ShatteredTable(query, st) ==
    LET fresh == {ShatteredSymbol(atom) : atom \in AtomsToShatter(query, st)}
    IN [s \in DOMAIN st \cup fresh |->
          IF s \in DOMAIN st THEN st[s] ELSE ProbabilisticFactSet]

shatter_easy_probfacts(query, st) ==
    IF ~ IsEasilyShatterable(query, st) THEN Raise("NotEasilyShatterableError")
    ELSE Implication(query.consequent, ShatterFormula(query.antecedent, st))

\* symbolic_shattering: the shattered query over symbols, and the symbol
\* table with a symbol added for every relation that shattering made
symbolic_shattering(unified_query, st) ==
    LET shattered == shatter_easy_probfacts(unified_query, st)
    IN IF IsRaise(shattered) THEN shattered
       ELSE [type |-> "Shattered", query |-> shattered,
             symbol_table |-> ShatteredTable(unified_query, st)]

-----------------------------------------------------------------------------
(* SpecSolve: solve_succ_query of the lifted solver.  The program of the   *)
(* model holds extensional relations only, its queries have no equality    *)
(* atom and no probabilistic-choice relation in two atoms: flatten_query,  *)
(* lift_optimization_for_choice_predicates, UnifyVariableEqualities and    *)
(* reintroduce_unified_head_terms have nothing to rewrite in them.         *)

IsFalseBody(flat_query_body) ==
    \/ flat_query_body = FalseConstant
    \/ /\ flat_query_body.type = "and"
       /\ \E i \in DOMAIN flat_query_body.formulas :
             flat_query_body.formulas[i] = FalseConstant

\* the empty provenance set, were it to have the probability column only
EmptyProvenanceSetWithoutHead(query) ==
    [type |-> "ProvenanceAlgebraSet", columns |-> <<"_p_">>]

\* the empty provenance set over the head variables of the query
EmptyProvenanceSet(query) ==
    [type |-> "ProvenanceAlgebraSet",
     columns |-> <<"_p_">> \o SelectSeq(query.consequent, IsSymbol)]

\* RAQueryOptimiser: a Projection on all the columns of its relation is
\* replaced by the relation
RECURSIVE RAQueryOptimiser(_)
RAQueryOptimiser(plan) ==
    CASE plan.type = "Projection" ->
           LET relation == RAQueryOptimiser(plan.relation)
           IN IF plan.attributes = PlanAttributes(relation) THEN relation
              ELSE Projection(relation, plan.attributes)
      [] plan.type \in UnaryTypes ->
           [plan EXCEPT !.relation = RAQueryOptimiser(plan.relation)]
      [] plan.type \in BinaryTypes ->
           [plan EXCEPT !.relation_left = RAQueryOptimiser(plan.relation_left),
                        !.relation_right = RAQueryOptimiser(plan.relation_right)]
      [] plan.type = "WeightedNaturalJoin" ->
           [plan EXCEPT !.relations =
               Tuple([i \in DOMAIN plan.relations |->
                         RAQueryOptimiser(plan.relations[i])])]
      [] OTHER -> plan

\* what the solver returns for the plan it walks
Solved(ra_query) == [type |-> "Solved", ra_query |-> ra_query]

\* no probabilistic-choice relation is in two atoms of the query
ChoiceOnce(query, st) ==
    IF IsFalseBody(query.antecedent) THEN TRUE
    ELSE \A a1, a2 \in Range(extract_logic_atoms(query.antecedent)) :
            a1 # a2 /\ a1.functor = a2.functor
                => st[a1.functor] # ProbabilisticChoiceSet

FalseBodies ==
    {FalseConstant, Conjunction(<<Atom("S", <<"x">>), FalseConstant>>)}

SolveQueries ==
    Queries \cup {Implication(h, b) : h \in Heads, b \in FalseBodies}

InitSolve ==
    /\ pc = "solve"
    /\ call_rule \in SolveQueries
    /\ call_symbol_table \in SymbolTables
    /\ ChoiceOnce(call_rule, call_symbol_table)
    /\ shattered_query = None
    /\ call_result = None
    /\ outcome = None

\* solve_succ_query up to the call of dalvi_suciu_lift
SolveLift ==
    /\ pc = "solve"
    /\ IF IsFalseBody(call_rule.antecedent)
       THEN /\ outcome' = EmptyProvenanceSet(call_rule)
            /\ pc' = "solve_returned"
            /\ UNCHANGED <<call_symbol_table, shattered_query, call_result>>
       ELSE LET shattering == symbolic_shattering(call_rule, call_symbol_table)
                shattered == IF IsRaise(shattering) THEN call_rule
                             ELSE shattering.query
                symbol_table == IF IsRaise(shattering) THEN call_symbol_table
                                ELSE shattering.symbol_table
                ra_query == dalvi_suciu_lift(shattered, symbol_table)
            IN /\ shattered_query' = shattered
               /\ call_symbol_table' = symbol_table
               /\ call_result' = ra_query
               /\ IF IsRaise(ra_query)
                  THEN outcome' = ra_query /\ pc' = "solve_returned"
                  ELSE pc' = "solve_lifted" /\ UNCHANGED outcome
    /\ UNCHANGED call_rule

\* solve_succ_query from the purity test on, were the test to look at the
\* root of the plan only
SolveRunRootOnly ==
    /\ pc = "solve_lifted"
    /\ outcome' = IF call_result.type = "NonLiftable"
                  THEN Raise("NonLiftableException")
                  ELSE Solved(RAQueryOptimiser(call_result))
    /\ pc' = "solve_returned"
    /\ UNCHANGED <<call_rule, call_symbol_table, shattered_query, call_result>>

\* solve_succ_query from the purity test on
SolveRun ==
    /\ pc = "solve_lifted"
    /\ outcome' = IF ~ is_pure_lifted_plan(call_result)
                  THEN Raise("NonLiftableException")
                  ELSE Solved(RAQueryOptimiser(call_result))
    /\ pc' = "solve_returned"
    /\ UNCHANGED <<call_rule, call_symbol_table, shattered_query, call_result>>

NextSolve == SolveLift \/ SolveRun

SpecSolve == InitSolve /\ [][NextSolve]_vars

\* C4: solve_succ_query of the lifted solver raises NonLiftableException
\* exactly when the plan that dalvi_suciu_lift returned contains a NonLiftable
\* node; the solver is then not run, and every plan the solver is run on is
\* without NonLiftable.
C4_RaisesIffPlanHasNonLiftable ==
    /\ pc = "solve_returned" /\ call_result # None /\ ~ IsRaise(call_result) =>
          /\ outcome = Raise("NonLiftableException")
                <=> ContainsNonLiftable(call_result)
          /\ ContainsNonLiftable(call_result) => outcome.type # "Solved"
    /\ outcome = Raise("NonLiftableException") =>
          call_result # None /\ ~ IsRaise(call_result)
    /\ outcome.type = "Solved" =>
          /\ ~ ContainsNonLiftable(outcome.ra_query)
          /\ ~ ContainsNonLiftable(call_result)

\* a plan with a NonLiftable node below its root was refused
C4_Witness ==
    /\ pc = "solve_returned"
    /\ outcome = Raise("NonLiftableException")
    /\ call_result.type # "NonLiftable"
    /\ ContainsNonLiftable(call_result)

-----------------------------------------------------------------------------
(* SpecPure: is_pure_lifted_plan on plans composed node by node.           *)

MaxPlanDepth == 2

PlanLeaves ==
    {Translate(Atom("S", <<"x">>)), NonLiftable(Atom("S", <<"x">>))}

MaxOf(S) == CHOOSE m \in S : \A n \in S : n <= m

\* the number of operations on the longest path of a plan
RECURSIVE PlanDepth(_)
PlanDepth(plan) ==
    CASE plan.type \in UnaryTypes -> 1 + PlanDepth(plan.relation)
      [] plan.type \in BinaryTypes ->
           1 + MaxOf({PlanDepth(plan.relation_left),
                      PlanDepth(plan.relation_right)})
      [] plan.type = "WeightedNaturalJoin" ->
           1 + MaxOf({PlanDepth(plan.relations[i]) : i \in DOMAIN plan.relations})
      [] OTHER -> 0

InitPure ==
    /\ pc = "compose"
    /\ call_rule = None
    /\ call_symbol_table = None
    /\ shattered_query = None
    /\ call_result \in PlanLeaves
    /\ outcome = None

\* the plan becomes the relation of a unary operation
ComposeUnary ==
    /\ pc = "compose" /\ PlanDepth(call_result) < MaxPlanDepth
    /\ \E type \in UnaryTypes :
          call_result' = [type |-> type, relation |-> call_result,
                          attributes |-> {}]
    /\ UNCHANGED <<pc, call_rule, call_symbol_table, shattered_query, outcome>>

\* the plan becomes one side of a binary operation, a leaf the other
ComposeBinary ==
    /\ pc = "compose" /\ PlanDepth(call_result) < MaxPlanDepth
    /\ \E type \in BinaryTypes, leaf \in PlanLeaves, left \in BOOLEAN :
          call_result' =
              [type |-> type,
               relation_left |-> IF left THEN call_result ELSE leaf,
               relation_right |-> IF left THEN leaf ELSE call_result]
    /\ UNCHANGED <<pc, call_rule, call_symbol_table, shattered_query, outcome>>

\* the plan becomes a relation of a weighted natural join, alone or next to a
\* leaf
ComposeNAry ==
    /\ pc = "compose" /\ PlanDepth(call_result) < MaxPlanDepth
    /\ \E relations \in {<<call_result>>}
             \cup {<<call_result, leaf>> : leaf \in PlanLeaves}
             \cup {<<leaf, call_result>> : leaf \in PlanLeaves} :
          call_result' =
              WeightedNaturalJoin(relations, [i \in DOMAIN relations |-> 1])
    /\ UNCHANGED <<pc, call_rule, call_symbol_table, shattered_query, outcome>>

\* is_pure_lifted_plan on the plan composed
CheckPure ==
    /\ pc = "compose"
    /\ outcome' = is_pure_lifted_plan(call_result)
    /\ pc' = "checked"
    /\ UNCHANGED <<call_rule, call_symbol_table, shattered_query, call_result>>

NextPure == ComposeUnary \/ ComposeBinary \/ ComposeNAry \/ CheckPure

SpecPure == InitPure /\ [][NextPure]_vars

\* C5: is_pure_lifted_plan returns false exactly for the plans in which a
\* NonLiftable node occurs, at any depth and under any mix of unary, binary
\* and n-ary operations, and true for every other plan.
C5_PureIffNoNonLiftable ==
    pc = "checked" => outcome = ~ ContainsNonLiftable(call_result)

\* a plan was refused for a NonLiftable node two operations below its root,
\* under an n-ary operation
C5_Witness ==
    /\ pc = "checked" /\ outcome = FALSE
    /\ PlanDepth(call_result) >= 2
    /\ call_result.type \in UnaryTypes \cup BinaryTypes
    /\ \E side \in {"relation", "relation_left", "relation_right"} :
          /\ side \in DOMAIN call_result
          /\ call_result[side].type = "WeightedNaturalJoin"
          /\ \A i \in DOMAIN call_result[side].relations :
                call_result[side].relations[i].type = "NonLiftable"

-----------------------------------------------------------------------------
(* The hierarchical test of the small dichotomy theorem.                   *)

EQ == "EQ"

\* extract_atom_sets_and_detect_self_joins: the atoms are taken as a set;
\* atom_set maps every variable to the symbols of the atoms that hold it
extract_atom_sets_and_detect_self_joins(query) ==
    LET predicates == {pred \in Range(extract_logic_atoms(query)) :
                          pred.functor # EQ}
        variables == UNION {AtomVariables(pred) : pred \in predicates}
    IN [has_self_joins |->
            \E p1, p2 \in predicates : p1 # p2 /\ p1.functor = p2.functor,
        atom_set |->
            [v \in variables |->
                {pred.functor : pred \in {p \in predicates :
                                             v \in AtomVariables(p)}}]]

\* the test, were disjoint atom sets not accepted
is_hierarchical_nested_only(query) ==
    LET extracted == extract_atom_sets_and_detect_self_joins(query)
        atom_set == extracted.atom_set
    IN IF extracted.has_self_joins THEN FALSE
       ELSE \A v, v2 \in DOMAIN atom_set :
               atom_set[v] \subseteq atom_set[v2]
                   \/ atom_set[v2] \subseteq atom_set[v]

is_hierarchical_without_self_joins(query) ==
    LET extracted == extract_atom_sets_and_detect_self_joins(query)
        atom_set == extracted.atom_set
    IN IF extracted.has_self_joins THEN FALSE
       ELSE \A v, v2 \in DOMAIN atom_set :
               \/ atom_set[v] \subseteq atom_set[v2]
               \/ atom_set[v2] \subseteq atom_set[v]
               \/ atom_set[v] \cap atom_set[v2] = {}

-----------------------------------------------------------------------------
(* solve_succ_query of the small dichotomy solver.  The functor of an atom *)
(* of the shattered query is the relation itself: its kind is read from    *)
(* the table of the shattered query.                                       *)

remove_conjunction_duplicates(flat_query_body) ==
    Conjunction(Dedup(flat_query_body.formulas))

\* the query before shattering
FlatQuery(query) ==
    LET flat_query_body ==
            IF query.antecedent.type = "and"
            THEN remove_conjunction_duplicates(query.antecedent)
            ELSE query.antecedent
    IN Implication(query.consequent, GuaranteeConjunction(flat_query_body))

_get_existential_variables_in_atoms(query, functor_type, kinds) ==
    LET head_vars == {arg \in Range(query.consequent) : IsSymbol(arg)}
        conjuncts == IF query.antecedent.type = "and"
                     THEN query.antecedent.formulas
                     ELSE <<query.antecedent>>
    IN UNION {AtomVariables(conjuncts[i]) \ head_vars :
                 i \in {j \in DOMAIN conjuncts :
                           kinds[conjuncts[j].functor] = functor_type}}

\* the body handed to the hierarchical test, were it the whole shattered body
ProbabilisticBodyOfEveryAtom(shattered, kinds) ==
    Conjunction(extract_logic_atoms(shattered.antecedent))

\* the atoms of the shattered query over probabilistic relations
ProbabilisticBody(shattered, kinds) ==
    Conjunction(SelectSeq(extract_logic_atoms(shattered.antecedent),
        LAMBDA atom : kinds[atom.functor]
                         \in {ProbabilisticChoiceSet, ProbabilisticFactSet}))

_project_on_query_head(provset, query) ==
    Projection(provset, {arg \in Range(query.consequent) : IsSymbol(arg)})

-----------------------------------------------------------------------------
(* SpecFast: the small dichotomy solver; is_hierarchical_without_self_joins *)
(* called on a conjunction, and solve_succ_query called on a conjunctive   *)
(* query.                                                                  *)

MaxConjuncts == 3

HierAtomPool ==
    {Atom("R", <<"x", "y">>), Atom("R", <<"x", "a">>), Atom("S", <<"x">>),
     Atom("S", <<"y">>), Atom("T", <<"y">>), Atom("T", <<"z">>),
     Atom("U", <<"y", "z">>), Atom(EQ, <<"x", "y">>)}

\* the conjunctions of up to n atoms, in every order, repetitions included
HierConjunctions(n) ==
    {Conjunction(formulas) :
        formulas \in UNION {[1..k -> HierAtomPool] : k \in 1..n}}

FastHeads == Heads \cup {<<"x", "y">>}

FastQueries ==
    {q \in {Implication(h, b) : h \in FastHeads, b \in ConjunctiveQueries(MaxAtoms)} :
        IsSafe(q.consequent, q.antecedent)}
    \cup {q \in {Implication(h, b) : h \in Heads,
                                      b \in DisjunctiveQueries(MaxDisjuncts)} :
             IsSafe(q.consequent, q.antecedent)}
    \cup {Implication(h, b) : h \in Heads, b \in FalseBodies}

InitFast ==
    /\ \/ /\ pc = "fast"
          /\ call_rule \in FastQueries
          /\ call_symbol_table \in SymbolTables
          /\ ChoiceOnce(call_rule, call_symbol_table)
       \/ /\ pc = "hier"
          /\ call_rule \in HierConjunctions(MaxConjuncts)
          /\ call_symbol_table = None
    /\ shattered_query = None
    /\ call_result = None
    /\ outcome = None

\* what a call that returns value hands to its caller
Returned(value) == [type |-> "Returned", value |-> value]

\* a call of is_hierarchical_without_self_joins
HierCall ==
    /\ pc = "hier"
    /\ outcome' = Returned(is_hierarchical_without_self_joins(call_rule))
    /\ pc' = "hier_returned"
    /\ UNCHANGED <<call_rule, call_symbol_table, shattered_query, call_result>>

\* the relation kinds of the atoms of the shattered query
FastKinds == ShatteredTable(FlatQuery(call_rule), call_symbol_table)

\* the conjuncts that _get_existential_variables_in_atoms reads the functor
\* of are atoms; those of another conjunct have no functor to read
LiteralsHaveFunctor(query) ==
    IF query.antecedent.type = "and"
    THEN \A i \in DOMAIN query.antecedent.formulas :
            query.antecedent.formulas[i].type = "atom"
    ELSE query.antecedent.type = "atom"

\* solve_succ_query up to the test of the query's shape
FastPrepare ==
    /\ pc = "fast"
    /\ IF IsFalseBody(call_rule.antecedent)
       THEN /\ outcome' = EmptyProvenanceSet(call_rule)
            /\ pc' = "fast_returned"
            /\ UNCHANGED shattered_query
       ELSE LET unified_query == FlatQuery(call_rule)
                shattered == shatter_easy_probfacts(unified_query,
                                                    call_symbol_table)
            IN IF IsRaise(shattered)
               THEN /\ outcome' = shattered
                    /\ pc' = "fast_returned"
                    /\ UNCHANGED shattered_query
               ELSE /\ shattered_query' = shattered
                    /\ IF /\ shattered.antecedent.type # "or"
                          /\ ~ LiteralsHaveFunctor(shattered)
                       THEN /\ outcome' = Raise("AttributeError")
                            /\ pc' = "fast_returned"
                       ELSE IF
                          \/ shattered.antecedent.type = "or"
                          \/ _get_existential_variables_in_atoms(
                                 shattered, ProbabilisticFactSet, FastKinds)
                               \ _get_existential_variables_in_atoms(
                                     shattered, ProbabilisticChoiceSet, FastKinds)
                                 # {}
                       THEN /\ outcome' = Raise("UnsupportedSolverError")
                            /\ pc' = "fast_returned"
                       ELSE /\ pc' = "fast_test"
                            /\ UNCHANGED outcome
    /\ UNCHANGED <<call_rule, call_symbol_table, call_result>>

\* the hierarchical test, and the plan of a query that passes it
FastTest ==
    /\ pc = "fast_test"
    /\ IF ~ is_hierarchical_without_self_joins(
               ProbabilisticBody(shattered_query, FastKinds))
       THEN /\ outcome' = Raise("NotHierarchicalQueryException")
            /\ pc' = "fast_rejected"
            /\ UNCHANGED call_result
       ELSE /\ call_result' = _project_on_query_head(
                                  Translate(shattered_query.antecedent),
                                  shattered_query)
            /\ pc' = "fast_plan"
            /\ UNCHANGED outcome
    /\ UNCHANGED <<call_rule, call_symbol_table, shattered_query>>

\* the plan is optimised and run
FastRun ==
    /\ pc = "fast_plan"
    /\ outcome' = Solved(RAQueryOptimiser(call_result))
    /\ pc' = "fast_solved"
    /\ UNCHANGED <<call_rule, call_symbol_table, shattered_query, call_result>>

NextFast == HierCall \/ FastPrepare \/ FastTest \/ FastRun

SpecFast == InitFast /\ [][NextFast]_vars

-----------------------------------------------------------------------------
(* Properties of the small dichotomy solver, stated on SpecFast.           *)

\* solve_succ_query has returned or raised
FastEnded == pc \in {"fast_returned", "fast_rejected", "fast_solved"}

\* solve_succ_query has run the hierarchical test
FastTested == pc \in {"fast_rejected", "fast_plan", "fast_solved"}

\* the conjuncts of the conjunction or query under way
Conjuncts ==
    LET body == IF call_rule.type = "implication" THEN call_rule.antecedent
                ELSE call_rule
    IN IF body.type = "and" THEN body.formulas ELSE <<body>>

\* the predicate symbols of the atoms that hold variable v, equality aside
SymbolsAt(v) ==
    {Conjuncts[i].functor :
        i \in {j \in DOMAIN Conjuncts :
                  Conjuncts[j].functor # EQ /\ v \in AtomVariables(Conjuncts[j])}}

ConjunctVariables ==
    UNION {AtomVariables(Conjuncts[i]) : i \in DOMAIN Conjuncts}

NestedOrDisjoint ==
    \A v1, v2 \in ConjunctVariables :
        \/ SymbolsAt(v1) \subseteq SymbolsAt(v2)
        \/ SymbolsAt(v2) \subseteq SymbolsAt(v1)
        \/ SymbolsAt(v1) \cap SymbolsAt(v2) = {}

\* a predicate symbol is in two conjuncts
HasRepeatedSymbol ==
    \E i, j \in DOMAIN Conjuncts :
        i # j /\ Conjuncts[i].functor = Conjuncts[j].functor
              /\ Conjuncts[i].functor # EQ

PairwiseVariableDisjoint ==
    \A i, j \in DOMAIN Conjuncts :
        i # j => AtomVariables(Conjuncts[i]) \cap AtomVariables(Conjuncts[j]) = {}

\* the conjuncts of the conjunction under way, in every order
Reorderings ==
    {Conjunction([i \in DOMAIN Conjuncts |-> Conjuncts[p[i]]]) :
        p \in Permutations(DOMAIN Conjuncts)}

\* the query is R(x,y), S(x), T(y) with x and y existential, over
\* probabilistic-fact relations
IsNonHierarchicalWitness ==
    /\ call_rule.type = "implication" /\ call_rule.consequent = <<>>
    /\ ~ IsFalseBody(call_rule.antecedent)
    /\ Len(Conjuncts) = 3
    /\ Range(Conjuncts) = {Atom("R", <<"x", "y">>), Atom("S", <<"x">>),
                           Atom("T", <<"y">>)}
    /\ \A s \in {"R", "S", "T"} : call_symbol_table[s] = ProbabilisticFactSet

\* C3: for R(x,y), S(x), T(y) with x and y existential over
\* tuple-independent relations, is_hierarchical_without_self_joins is false,
\* the fast path raises NotHierarchicalQueryException, and dalvi_suciu_lift
\* returns NonLiftable, a plan that is_pure_lifted_plan refuses.
C3_NonHierarchicalWitnessRefused ==
    IsNonHierarchicalWitness =>
        /\ ~ is_hierarchical_without_self_joins(call_rule.antecedent)
        /\ FastEnded => outcome = Raise("NotHierarchicalQueryException")
        /\ dalvi_suciu_lift(call_rule, call_symbol_table).type = "NonLiftable"
        /\ ~ is_pure_lifted_plan(dalvi_suciu_lift(call_rule, call_symbol_table))

\* C6: is_hierarchical_without_self_joins returns false for every
\* conjunction in which a predicate symbol is in more than one conjunct,
\* structurally identical atoms included.
C6_RepeatedSymbolNotHierarchical ==
    pc = "hier_returned" /\ HasRepeatedSymbol => outcome = Returned(FALSE)

\* C7: for a conjunction whose atoms pairwise share no variable,
\* is_hierarchical_without_self_joins returns true and the fast path builds
\* the translation of the conjunction projected on the head variables.
C7_VariableDisjointIsPlanned ==
    /\ pc = "hier_returned" /\ PairwiseVariableDisjoint => outcome = Returned(TRUE)
    /\ (/\ FastEnded /\ ~ IsFalseBody(call_rule.antecedent)
        /\ call_rule.antecedent.type # "or"
        /\ PairwiseVariableDisjoint) =>
          /\ is_hierarchical_without_self_joins(FlatQuery(call_rule).antecedent)
          /\ shattered_query # None
          /\ call_result =
                Projection(Translate(shattered_query.antecedent),
                           {t \in Range(call_rule.consequent) : IsSymbol(t)})
          /\ outcome.type = "Solved"

\* C8: on a conjunction without a repeated predicate symbol,
\* is_hierarchical_without_self_joins returns true exactly when the sets of
\* symbols of every two variables are nested or disjoint, whatever the order
\* of the conjuncts; and when the test of the fast path is false,
\* solve_succ_query raises NotHierarchicalQueryException with no plan built.
C8_HierarchicalIffNestedOrDisjoint ==
    /\ pc = "hier_returned" /\ ~ HasRepeatedSymbol =>
          /\ outcome = Returned(NestedOrDisjoint)
          /\ \A reordered \in Reorderings :
                Returned(is_hierarchical_without_self_joins(reordered)) = outcome
    /\ FastTested =>
          LET hierarchical == is_hierarchical_without_self_joins(
                                  ProbabilisticBody(shattered_query, FastKinds))
          IN /\ outcome = Raise("NotHierarchicalQueryException") <=> ~ hierarchical
             /\ ~ hierarchical => call_result = None /\ pc = "fast_rejected"
    /\ outcome = Raise("NotHierarchicalQueryException") => pc = "fast_rejected"

\* the test returned false on a conjunction of three atoms over three
\* symbols and three variables
C8_Witness ==
    /\ pc = "hier_returned" /\ ~ HasRepeatedSymbol /\ outcome = Returned(FALSE)
    /\ Len(Conjuncts) = 3 /\ Cardinality(ConjunctVariables) = 3

\* the fast path has shattered the query under way
FastShattered ==
    /\ call_rule.type = "implication" /\ pc # "fast"
    /\ shattered_query # None

\* the atoms of the shattered body over relations of the kind
ShatteredAtomsOf(kind) ==
    {atom \in Range(extract_logic_atoms(shattered_query.antecedent)) :
        FastKinds[atom.functor] = kind}

\* the non-head variables of the probabilistic-fact atoms of the shattered
\* body that are in no probabilistic-choice atom of it
FactOnlyVariables ==
    (UNION {AtomVariables(atom) : atom \in ShatteredAtomsOf(ProbabilisticFactSet)}
        \ UNION {AtomVariables(atom) :
                    atom \in ShatteredAtomsOf(ProbabilisticChoiceSet)})
      \ Range(call_rule.consequent)

\* the unsupported-query error, raised before the hierarchical test and with
\* no plan built or run, exactly under the two conditions
UnsupportedExactly ==
    /\ outcome = Raise("UnsupportedSolverError")
          <=> \/ shattered_query.antecedent.type = "or"
              \/ FactOnlyVariables # {}
    /\ outcome = Raise("UnsupportedSolverError") =>
          pc = "fast_returned" /\ call_result = None

\* C14: the fast path raises UnsupportedSolverError, before the
\* hierarchical test and without building or running a plan, when the
\* shattered body is a disjunction or when a non-head variable of a
\* probabilistic-fact atom is in no probabilistic-choice atom; when neither
\* holds it does not raise that error.
C14_UnsupportedIffDisjunctionOrFactOnlyVariable ==
    FastShattered => UnsupportedExactly

\* the same on the queries whose body is a conjunction of atoms
C14_HoldsOfConjunctiveBodies ==
    FastShattered /\ call_rule.antecedent.type # "or" => UnsupportedExactly

\* a disjunctive body with a variable of a probabilistic-fact atom only
\* ended on an error that is not the unsupported-query error
C14_DisjunctiveBodyEndsOnAttributeError ==
    /\ FastShattered /\ call_rule.antecedent.type = "or"
    /\ FactOnlyVariables # {}
    /\ outcome = Raise("AttributeError")

-----------------------------------------------------------------------------
(* SpecWeights: the elements and the weights of inclusion-exclusion, on    *)
(* the minimised CNF of conjunctions of closed clauses over linked         *)
(* predicate symbols.                                                      *)

MaxClauses == 3

ClausePool ==
    <<ExistentialPredicate("x", Atom("R", <<"x", "a">>)),
      ExistentialPredicate("y", Atom("R", <<"b", "y">>)),
      ExistentialPredicate("z", Atom("R", <<"z", "z">>)),
      ExistentialPredicate("x",
          Conjunction(<<Atom("R", <<"x", "a">>), Atom("S", <<"x">>)>>)),
      ExistentialPredicate("y",
          Conjunction(<<Atom("R", <<"b", "y">>), Atom("T", <<"y">>)>>)),
      Disjunction(<<ExistentialPredicate("x", Atom("S", <<"x">>)),
                    ExistentialPredicate("y", Atom("R", <<"b", "y">>))>>),
      Disjunction(<<ExistentialPredicate("x", Atom("S", <<"x">>)),
                    ExistentialPredicate("z", Atom("R", <<"z", "z">>))>>),
      Disjunction(<<ExistentialPredicate("y", Atom("R", <<"b", "y">>)),
                    ExistentialPredicate("z", Atom("R", <<"z", "z">>))>>)>>

\* the conjunctions of 2..n different clauses of the pool, in every order
ClauseConjunctions(n) ==
    {Conjunction(Tuple([i \in DOMAIN t |-> ClausePool[t[i]]])) :
        t \in {u \in UNION {[1..k -> DOMAIN ClausePool] : k \in 2..n} :
                  \A i, j \in DOMAIN u : i # j => u[i] # u[j]}}

\* the expressions that dalvi_suciu_lift hands to
\* inclusion_exclusion_conjunction: minimised, of more than one clause and
\* of one component
WeighedExpressions ==
    {rule_cnf \in {minimize_ucq_in_cnf(rule) : rule \in ClauseConjunctions(MaxClauses)} :
        /\ Len(rule_cnf.formulas) > 1
        /\ Len(symbol_connected_components(rule_cnf)) = 1}

InitWeights ==
    /\ pc = "weigh"
    /\ call_rule \in WeighedExpressions
    /\ call_symbol_table = None
    /\ shattered_query = None
    /\ call_result = None
    /\ outcome = None

\* what inclusion_exclusion_conjunction has before it lifts: the powerset,
\* the keys and sets of the dictionary, and the weights of the keys
Weighed(formula_powerset, fcs) ==
    IF ~ IsAcyclic(fcs) THEN Raise("RecursionError")
    ELSE [type |-> "Weights", formula_powerset |-> formula_powerset,
          keys |-> fcs.keys, sets |-> fcs.sets, weights |-> mobius_weights(fcs)]

\* inclusion_exclusion_conjunction up to the weights
WeighCall ==
    /\ pc = "weigh"
    /\ call_result' = Weighed(FormulaPowerset(call_rule),
                              FormulaContainments(FormulaPowerset(call_rule)))
    /\ pc' = "weighed"
    /\ UNCHANGED <<call_rule, call_symbol_table, shattered_query, outcome>>

NextWeights == WeighCall

SpecWeights == InitWeights /\ [][NextWeights]_vars

\* the clauses chosen for every element of the powerset, as indices
ChosenClauses ==
    SelectSeq(powerset(call_rule.formulas), LAMBDA chosen : Len(chosen) # 0)

\* an element is contained in another exactly when its clauses are among
\* the clauses of the other
OnlySubsetContainments ==
    \A i, j \in DOMAIN ChosenClauses :
        UCQContained(call_result.formula_powerset[i],
                     call_result.formula_powerset[j])
            <=> Range(ChosenClauses[i]) \subseteq Range(ChosenClauses[j])

\* (-1)^(m + 1)
AlternatingSign(m) == IF m % 2 = 1 THEN 1 ELSE -1

\* C19: for a conjunction of k >= 2 clauses whose elements contain each
\* other only as the inclusion of their clauses says, the weight of the
\* disjunction of m clauses is (-1)^(m+1): +1 for a clause, -1 for a pair,
\* +1 for a triple; for k = 2 the elements are C1, C2 and C1 v C2 with the
\* weights +1, +1, -1.
C19_WeightsAlternateWithSize ==
    pc = "weighed" /\ ~ IsRaise(call_result) /\ OnlySubsetContainments =>
        /\ call_result.keys = call_result.formula_powerset
        /\ Len(call_result.weights) = Len(ChosenClauses)
        /\ \A i \in DOMAIN ChosenClauses :
              call_result.weights[i] = AlternatingSign(Len(ChosenClauses[i]))
        /\ Len(call_rule.formulas) = 2 =>
              /\ call_result.keys =
                    <<call_rule.formulas[1], call_rule.formulas[2],
                      Disjunction(call_rule.formulas)>>
              /\ call_result.weights = <<1, 1, -1>>

\* three clauses with no other containment were weighed, the disjunction of
\* the three with +1
C19_Witness ==
    /\ pc = "weighed" /\ ~ IsRaise(call_result) /\ OnlySubsetContainments
    /\ Len(call_rule.formulas) = 3
    /\ Len(call_result.weights) = 7
    /\ call_result.weights[4] = -1
    /\ call_result.weights[7] = 1

-----------------------------------------------------------------------------
(* SpecEngines: solve_succ_query of the lifted solver and of the fast      *)
(* path, on the same queries.                                              *)

InitEngines == InitSolve \/ InitFast

NextEngines == NextSolve \/ NextFast

SpecEngines == InitEngines /\ [][NextEngines]_vars

\* solve_succ_query of either solver is under way or has ended
InSolveSuccQuery == call_rule.type = "implication"

\* solve_succ_query of either solver has gone past its test of the body
PastFalseTest == InSolveSuccQuery /\ pc \notin {"solve", "fast"}

\* C12: when the flattened body is the constant False, or a conjunction
\* with a conjunct equal to False, solve_succ_query of both solvers returns
\* an empty provenance set whose columns are the probability column followed
\* by the head variables, and nothing was shattered, tested, lifted, planned
\* or run.
C12_FalseBodyReturnsEmptySet ==
    PastFalseTest /\ call_rule.antecedent \in FalseBodies =>
        /\ pc \in {"solve_returned", "fast_returned"}
        /\ outcome = [type |-> "ProvenanceAlgebraSet",
                      columns |-> <<"_p_">> \o call_rule.consequent]
        /\ shattered_query = None
        /\ call_result = None
        /\ call_symbol_table \in SymbolTables

\* the fast path returned the empty set over the head variable x for a
\* conjunction with a conjunct equal to False
C12_Witness ==
    /\ pc = "fast_returned"
    /\ call_rule.antecedent.type = "and"
    /\ call_rule.antecedent \in FalseBodies
    /\ outcome.type = "ProvenanceAlgebraSet"
    /\ outcome.columns = <<"_p_", "x">>

\* the variable-unified query that solve_succ_query hands to shattering
UnifiedQuery ==
    IF pc \in {"solve_returned", "solve_lifted"} THEN call_rule
    ELSE FlatQuery(call_rule)

\* shattering signals NotEasilyShatterableError for the query under way
NotEasilyShatterable ==
    /\ PastFalseTest /\ ~ IsFalseBody(call_rule.antecedent)
    /\ ~ IsEasilyShatterable(UnifiedQuery, call_symbol_table)

\* C13: whenever shattering signals NotEasilyShatterableError while
\* solve_succ_query of either solver prepares a query, the query is
\* processed with the unshattered, variable-unified formula, and the error
\* does not reach the caller.
C13_NotShatterableFallsBack ==
    NotEasilyShatterable =>
        /\ shattered_query = UnifiedQuery
        /\ outcome # Raise("NotEasilyShatterableError")

\* the lifted solver went on with the unshattered query
C13_LiftedSolverFallsBack ==
    /\ NotEasilyShatterable /\ pc = "solve_lifted"
    /\ shattered_query = call_rule

\* the fast path ended on the error of shattering
C13_FastPathRaises ==
    /\ NotEasilyShatterable /\ pc = "fast_returned"
    /\ outcome = Raise("NotEasilyShatterableError")

-----------------------------------------------------------------------------
(* SpecGraph: connected_components on the symmetric adjacency matrices of  *)
(* at most MaxNodes nodes, and symbol_connected_components on the n-ary    *)
(* operators of at most MaxNodes sub-formulas.                             *)

MaxNodes == 3

\* the adjacency matrix over n nodes whose non-zero entries are the edges;
\* an edge is the set of its one or two ends
GraphOf(n, edges) ==
    [i \in 0..(n - 1) |-> [j \in 0..(n - 1) |->
        IF {i, j} \in edges THEN 1 ELSE 0]]

\* every symmetric 0/1 matrix over 0..MaxNodes nodes, the diagonal included
AdjacencyMatrices ==
    UNION {{GraphOf(n, edges) :
                edges \in SUBSET {{i, j} : i, j \in 0..(n - 1)}} :
           n \in 0..MaxNodes}

Graph(adjacency_matrix) ==
    [type |-> "graph", adjacency_matrix |-> adjacency_matrix]

SubFormulaPool ==
    <<Atom("R", <<"x">>),
      Atom("S", <<"x">>),
      Atom("T", <<"y">>),
      Conjunction(<<Atom("R", <<"x">>), Atom("S", <<"y">>)>>),
      Disjunction(<<Atom("S", <<"x">>), Atom("T", <<"y">>)>>),
      ExistentialPredicate("z", Atom("U", <<"z", "x">>))>>

\* the conjunctions and the disjunctions of 1..MaxNodes sub-formulas of the
\* pool, and the sub-formulas themselves
GraphExpressions ==
    Range(SubFormulaPool)
    \cup {[type |-> type,
           formulas |-> Tuple([i \in DOMAIN t |-> SubFormulaPool[t[i]]])] :
             type \in {"and", "or"},
             t \in UNION {[1..k -> DOMAIN SubFormulaPool] : k \in 1..MaxNodes}}

InitGraph ==
    /\ \/ /\ pc = "graph"
          /\ call_rule \in {Graph(m) : m \in AdjacencyMatrices}
       \/ /\ pc = "expression"
          /\ call_rule \in GraphExpressions
    /\ call_symbol_table = None
    /\ shattered_query = None
    /\ call_result = None
    /\ outcome = None

Components(components) == [type |-> "Components", components |-> components]

\* connected_components on a matrix
ComponentsCall ==
    /\ pc = "graph"
    /\ call_result' = Components(connected_components(call_rule.adjacency_matrix))
    /\ pc' = "components"
    /\ UNCHANGED <<call_rule, call_symbol_table, shattered_query, outcome>>

\* what symbol_connected_components computes: the matrix, its components
\* and the operators it returns
SymbolComponents(expression, c_matrix) ==
    [type |-> "SymbolComponents",
     c_matrix |-> c_matrix,
     components |-> connected_components(c_matrix),
     operators |-> ComponentOperators(expression, connected_components(c_matrix))]

\* symbol_connected_components on an expression
SymbolComponentsCall ==
    /\ pc = "expression"
    /\ call_result' =
          IF ~ IsNary(call_rule) THEN Raise("ValueError")
          ELSE SymbolComponents(call_rule, symbol_co_occurence_graph(call_rule))
    /\ pc' = "symbol_components"
    /\ UNCHANGED <<call_rule, call_symbol_table, shattered_query, outcome>>

NextGraph == ComponentsCall \/ SymbolComponentsCall

SpecGraph == InitGraph /\ [][NextGraph]_vars

\* the nodes joined to the nodes of reached by a path of edges
RECURSIVE JoinedByPath(_, _)
JoinedByPath(adjacency_matrix, reached) ==
    LET next == reached \cup
                {j \in DOMAIN adjacency_matrix :
                    \E i \in reached : adjacency_matrix[i][j] # 0}
    IN IF next = reached THEN reached
       ELSE JoinedByPath(adjacency_matrix, next)

\* components is a partition of the nodes of the matrix into the classes of
\* "a path of edges joins them"
IsPartitionByPaths(adjacency_matrix, components) ==
    LET nodes == DOMAIN adjacency_matrix
    IN /\ \A i \in nodes :
             Cardinality({c \in DOMAIN components : i \in components[c]}) = 1
       /\ \A c \in DOMAIN components :
             components[c] # {} /\ components[c] \subseteq nodes
       /\ \A i, j \in nodes :
             (\E c \in DOMAIN components : {i, j} \subseteq components[c])
                 <=> j \in JoinedByPath(adjacency_matrix, {i})

\* C21: for every symmetric adjacency matrix over n nodes,
\* connected_components returns a partition of {0..n-1}: every index is in
\* exactly one component, no component is empty, and two indices are in the
\* same component iff a path of edges joins them; a graph with no edge
\* yields n singleton components and a complete graph over n >= 1 nodes
\* yields one component of all the nodes.
C21_ComponentsPartitionTheNodes ==
    pc = "components" =>
        LET m == call_rule.adjacency_matrix
            nodes == DOMAIN m
            components == call_result.components
        IN /\ IsPartitionByPaths(m, components)
           /\ (\A i, j \in nodes : m[i][j] = 0) =>
                 /\ Len(components) = Cardinality(nodes)
                 /\ \A c \in DOMAIN components : Cardinality(components[c]) = 1
           /\ (nodes # {} /\ \A i, j \in nodes : i # j => m[i][j] # 0) =>
                 components = <<nodes>>

\* a graph of three nodes with one edge was split into two components, the
\* second of them a single node
C21_Witness ==
    /\ pc = "components"
    /\ Cardinality(DOMAIN call_rule.adjacency_matrix) = 3
    /\ call_rule.adjacency_matrix[0][2] = 1
    /\ call_rule.adjacency_matrix[0][1] = 0
    /\ call_rule.adjacency_matrix[1][2] = 0
    /\ call_result.components = <<{0, 2}, {1}>>

\* sub-formulas i and j of the expression have a predicate symbol in common
ShareSymbol(formulas, i, j) ==
    \E a \in Range(extract_logic_atoms(formulas[i + 1])),
       b \in Range(extract_logic_atoms(formulas[j + 1])) : a.functor = b.functor

\* the sub-formulas that a chain of shared predicate symbols links to i
ChainedBySymbols(formulas, i) ==
    JoinedByPath([k \in 0..(Len(formulas) - 1) |->
                      [l \in 0..(Len(formulas) - 1) |->
                          IF ShareSymbol(formulas, k, l) THEN 1 ELSE 0]],
                 {i})

\* C22: symbol_co_occurence_graph over the sub-formulas of an n-ary
\* operator returns a symmetric matrix with zero diagonal whose entry
\* (i, j), i # j, is 1 iff sub-formulas i and j share a predicate symbol;
\* symbol_connected_components puts two sub-formulas in different
\* components only if no chain of shared symbols links them, and every
\* sub-formula appears in exactly one returned component.
C22_SymbolGraphAndComponents ==
    pc = "symbol_components" /\ ~ IsRaise(call_result) =>
        LET formulas == call_rule.formulas
            nodes == 0..(Len(formulas) - 1)
            c_matrix == call_result.c_matrix
            components == call_result.components
            operators == call_result.operators
        IN /\ DOMAIN c_matrix = nodes
           /\ \A i \in nodes :
                 /\ DOMAIN c_matrix[i] = nodes
                 /\ c_matrix[i][i] = 0
           /\ \A i, j \in nodes :
                 /\ c_matrix[i][j] = c_matrix[j][i]
                 /\ i # j => /\ c_matrix[i][j] \in {0, 1}
                             /\ c_matrix[i][j] = 1 <=> ShareSymbol(formulas, i, j)
           /\ \A i, j \in nodes :
                 (\E c \in DOMAIN components : {i, j} \subseteq components[c])
                     <=> j \in ChainedBySymbols(formulas, i)
           /\ \A i \in nodes :
                 Cardinality({c \in DOMAIN components : i \in components[c]}) = 1
           /\ Len(operators) = Len(components)
           /\ \A c \in DOMAIN operators :
                 /\ operators[c].type = call_rule.type
                 /\ operators[c].formulas =
                       SubSeqAt(formulas, {i + 1 : i \in components[c]})
                 /\ Len(operators[c].formulas) = Cardinality(components[c])

\* three sub-formulas, the first and the third linked only through the
\* second, came out as one component; and two that share a variable but no
\* symbol came out apart
C22_Witness ==
    /\ pc = "symbol_components" /\ ~ IsRaise(call_result)
    /\ Len(call_rule.formulas) = 3
    /\ ~ ShareSymbol(call_rule.formulas, 0, 2)
    /\ ShareSymbol(call_rule.formulas, 0, 1)
    /\ ShareSymbol(call_rule.formulas, 1, 2)
    /\ Len(call_result.operators) = 1
    /\ call_result.operators[1] = call_rule

-----------------------------------------------------------------------------
(* SpecSeparator: has_separator_variables on the DNF queries that          *)
(* dalvi_suciu_lift hands to it.                                           *)

\* a query over a relation of three attributes in which z is in two of the
\* three positions of every atom, no position being common to the three
TernaryQuery ==
    Implication(<<>>,
        Conjunction(<<Atom("P", <<"z", "z", "u">>), Atom("P", <<"u", "z", "z">>),
                      Atom("P", <<"z", "u", "z">>)>>))

TernaryTables ==
    {[s \in Symbols \cup {"P"} |-> IF s = "P" THEN ProbabilisticFactSet ELSE st[s]] :
        st \in SymbolTables}

\* dalvi_suciu_lift reaches has_separator_variables on the rule: its atoms
\* are not all deterministic, and its CNF is one clause of one component
\* and its DNF of one component
ReachesSeparator(rule, st) ==
    /\ rule.type # "atom"
    /\ ~ AllAtomsDeterministic(rule, st)
    /\ Len(symbol_connected_components(minimize_ucq_in_cnf(rule))) = 1
    /\ Len(minimize_ucq_in_cnf(rule).formulas) = 1
    /\ Len(symbol_connected_components(minimize_ucq_in_dnf(rule))) = 1

SeparatorInputs ==
    {<<minimize_ucq_in_dnf(LiftedRule(c[1])), c[2]>> :
        c \in {d \in (Queries \X SymbolTables) \cup ({TernaryQuery} \X TernaryTables) :
                  ReachesSeparator(LiftedRule(d[1]), d[2])}}

InitSeparator ==
    /\ pc = "separate"
    /\ \E c \in SeparatorInputs :
          /\ call_rule = c[1]
          /\ call_symbol_table = c[2]
    /\ shattered_query = None
    /\ call_result = None
    /\ outcome = None

\* what has_separator_variables computes: the separator variables and the
\* expression that find_separator_variables returns, and what it returns
Separated(found, st) ==
    [type |-> "Separated",
     separator_variables |-> found[1],
     expression |-> found[2],
     returned |-> SeparatedBy(found, st, {})]

\* has_separator_variables on a query
HasSeparatorCall ==
    /\ pc = "separate"
    /\ call_result' =
          Separated(find_separator_variables(call_rule, call_symbol_table),
                    call_symbol_table)
    /\ pc' = "separated"
    /\ UNCHANGED <<call_rule, call_symbol_table, shattered_query, outcome>>

NextSeparator == HasSeparatorCall

SpecSeparator == InitSeparator /\ [][NextSeparator]_vars

\* the atoms of the expression that find_separator_variables returned
SeparatedAtoms == Range(AtomList(call_result.expression))

\* var is quantified in the returned expression, free in no part of the
\* query, and in every atom over a probabilistic relation, none of them
\* over a probabilistic choice
IsBoundRootVariable(var) ==
    /\ var \in BoundVariables(call_result.expression)
    /\ var \notin extract_logic_free_variables(call_rule)
    /\ \A atom \in SeparatedAtoms :
          ~ is_atom_a_deterministic_relation(atom, call_symbol_table) =>
              /\ var \in Range(atom.args)
              /\ ~ is_atom_a_probabilistic_choice_relation(atom, call_symbol_table)

\* C23: every element of the separator set returned by
\* find_separator_variables is an existentially bound variable (never a
\* constant, never a variable free in the query) that occurs in every
\* probabilistic atom of every disjunct and in no probabilistic-choice atom;
\* disjuncts with no probabilistic atom impose no constraint.
C23_SeparatorsAreBoundRootVariables ==
    pc = "separated" =>
        \A var \in call_result.separator_variables :
            IsSymbol(var) /\ IsBoundRootVariable(var)

\* the separator set holds a constant next to a quantified variable
C23_ConstantAmongSeparators ==
    /\ pc = "separated"
    /\ \E var \in call_result.separator_variables : ~ IsSymbol(var)
    /\ \E var \in call_result.separator_variables : IsBoundRootVariable(var)

\* the root variables of the returned expression that the query quantifies
BoundRootVariables ==
    {var \in extract_probabilistic_root_variables(
                 IF IsNary(call_result.expression) THEN call_result.expression.formulas
                 ELSE <<call_result.expression>>, call_symbol_table) :
        var \in BoundVariables(call_result.expression)}

\* the atoms of the returned expression over probabilistic relations
SeparatedProbabilisticAtoms ==
    {atom \in SeparatedAtoms :
        ~ is_atom_a_deterministic_relation(atom, call_symbol_table)}

\* every predicate symbol among the probabilistic atoms has one position
\* that z occupies in all its occurrences
HasCommonPosition(z) ==
    \A atom \in SeparatedProbabilisticAtoms :
        \E p \in DOMAIN atom.args :
            \A other \in SeparatedProbabilisticAtoms :
                other.functor = atom.functor =>
                    p \in DOMAIN other.args /\ other.args[p] = z

\* C24: a root variable z is returned as a separator variable iff every
\* predicate symbol R among the probabilistic atoms has one attribute
\* position that z occupies in every occurrence of R (one position common
\* to all the occurrences, not pairwise overlapping positions); occurrences
\* of deterministic predicates without z do not disqualify z.
C24_SeparatorIffCommonPosition ==
    pc = "separated" =>
        \A z \in BoundRootVariables :
            z \in call_result.separator_variables <=> HasCommonPosition(z)

\* a root variable with a common position in every probabilistic symbol was
\* not returned: two atoms of a deterministic relation, one without it
C24_DeterministicOccurrenceDisqualifies ==
    /\ pc = "separated"
    /\ \E z \in BoundRootVariables :
          /\ HasCommonPosition(z)
          /\ z \notin call_result.separator_variables
          /\ \E a, b \in SeparatedAtoms \ SeparatedProbabilisticAtoms :
                a.functor = b.functor /\ z \notin Range(a.args)

\* a root variable was returned whose positions in the three atoms of a
\* relation overlap two by two and have no position in common
C24_PairwiseOverlapAccepted ==
    /\ pc = "separated"
    /\ \E z \in BoundRootVariables :
          /\ ~ HasCommonPosition(z)
          /\ z \in call_result.separator_variables

\* the sequences that list every element of S once
Orderings(S) ==
    {seq \in [1..Cardinality(S) -> S] :
        \A i, j \in DOMAIN seq : i # j => seq[i] # seq[j]}

\* the returned expression with its existentials made implicit
SeparatedMatrix == MakeExistentialsImplicit(call_result.expression)

\* the variables of the expression that are neither free in the query nor
\* separator variables
NeitherFreeNorSeparator ==
    (UNION {AtomVariables(atom) : atom \in SeparatedAtoms}
        \ extract_logic_free_variables(call_rule))
        \ call_result.separator_variables

\* C25: when the separator set is not empty, has_separator_variables
\* returns (True, IndependentProjection(P, A)), A the free variables of the
\* query and P dalvi_suciu_lift of the query with its existentials made
\* implicit and then quantified again over exactly the variables that are
\* neither free in the query nor separator variables, the separator
\* variables being free in the formula that is lifted; when the set is
\* empty it returns (False, None) and lifts nothing.
C25_SeparatorPlanProjectsLiftedSubquery ==
    pc = "separated" =>
        IF call_result.separator_variables # {}
        THEN \E seq \in Orderings(NeitherFreeNorSeparator) :
                /\ (call_result.separator_variables \ ConstantTerms)
                      \subseteq extract_logic_free_variables(
                                    WrapExistentials(seq, SeparatedMatrix))
                /\ call_result.returned =
                      Pair(TRUE,
                           IndependentProjection(
                               dalvi_suciu_lift(WrapExistentials(seq, SeparatedMatrix),
                                                call_symbol_table),
                               extract_logic_free_variables(call_rule)))
        ELSE call_result.returned = Pair(FALSE, None)

\* a plan was returned for a query with a separator variable and a
\* variable that is quantified again
C25_Witness ==
    /\ pc = "separated"
    /\ call_result.separator_variables \ ConstantTerms # {}
    /\ NeitherFreeNorSeparator # {}
    /\ call_result.returned.type = "Pair"
    /\ call_result.returned.has_plan
    /\ call_result.returned.plan.type = "IndependentProjection"

\* no separator variable: (False, None)
C25_WitnessWithoutSeparator ==
    /\ pc = "separated"
    /\ call_result.separator_variables = {}
    /\ call_result.returned = Pair(FALSE, None)

-----------------------------------------------------------------------------
(* SpecProject: disjoint_project on the DNF of a rule, and what            *)
(* dalvi_suciu_lift returns after it.                                      *)

\* queries with an atom of constants only
GroundAtomQueries ==
    {Implication(<<>>, Conjunction(<<Atom("R", <<"b", "a">>), Atom("S", <<"x">>)>>)),
     Implication(<<"x">>, Conjunction(<<Atom("R", <<"b", "a">>), Atom("S", <<"x">>)>>)),
     Implication(<<>>, Conjunction(<<Atom("R", <<"b", "a">>), Atom("R", <<"b", "y">>),
                                     Atom("T", <<"y">>)>>))}

\* dalvi_suciu_lift reaches disjoint_project on the rule: it reaches
\* has_separator_variables, which finds no separator variable
ReachesDisjointProject(rule, st) ==
    /\ ReachesSeparator(rule, st)
    /\ find_separator_variables(minimize_ucq_in_dnf(rule), st)[1] = {}

\* a union of two or more disjuncts that do not all share their symbols,
\* each a conjunction of atoms under its quantifiers: dalvi_suciu_lift
\* splits it into its components, disjoint_project can be called on it
IsSplitUnion(rule, st) ==
    /\ rule.type # "atom"
    /\ ~ AllAtomsDeterministic(rule, st)
    /\ Len(minimize_ucq_in_dnf(rule).formulas) >= 2
    /\ Len(symbol_connected_components(minimize_ucq_in_dnf(rule))) > 1
    /\ \A disjunct \in Range(minimize_ucq_in_dnf(rule).formulas) :
          \A f \in Range(GuaranteeConjunction(
                            MakeExistentialsImplicit(disjunct)).formulas) :
              f.type = "atom"

\* the rules that dalvi_suciu_lift hands to disjoint_project, and the rules
\* that a caller of disjoint_project can hand to it: the split unions and
\* the queries with an atom of constants only
ProjectInputs ==
    {<<LiftedRule(c[1]), c[2]>> :
        c \in {d \in (Queries \cup GroundAtomQueries) \X SymbolTables :
                  \/ ReachesDisjointProject(LiftedRule(d[1]), d[2])
                  \/ IsSplitUnion(LiftedRule(d[1]), d[2])
                  \/ /\ d[1] \in GroundAtomQueries
                     /\ ~ AllAtomsDeterministic(LiftedRule(d[1]), d[2])}}

InitProject ==
    /\ pc = "project"
    /\ \E c \in ProjectInputs :
          /\ call_rule = c[1]
          /\ call_symbol_table = c[2]
    /\ shattered_query = None
    /\ call_result = None
    /\ outcome = None

\* disjoint_project on the DNF of the rule
DisjointProjectCall ==
    /\ pc = "project"
    /\ call_result' = disjoint_project(minimize_ucq_in_dnf(call_rule),
                                       call_symbol_table, {})
    /\ pc' = "projected"
    /\ UNCHANGED <<call_rule, call_symbol_table, shattered_query, outcome>>

\* dalvi_suciu_lift unpacks what disjoint_project returned and returns
DispatcherReturn ==
    /\ pc = "projected"
    /\ ReachesDisjointProject(call_rule, call_symbol_table)
    /\ outcome' = AfterDisjointProject(call_rule, call_result)
    /\ pc' = "returned"
    /\ UNCHANGED <<call_rule, call_symbol_table, shattered_query, call_result>>

NextProject == DisjointProjectCall \/ DispatcherReturn

SpecProject == InitProject /\ [][NextProject]_vars

\* the DNF that disjoint_project received
ProjectedDNF == minimize_ucq_in_dnf(call_rule)

\* disjoint_project took its conjunctive variant
OnConjunctiveQuery == pc # "project" /\ Len(ProjectedDNF.formulas) = 1

\* the atoms of the conjunctive query
ProjectedAtoms == Range(AtomList(ProjectedDNF.formulas[1]))

\* an atom over a probabilistic-choice relation
OverChoice(atom) ==
    /\ atom.functor \in DOMAIN call_symbol_table
    /\ call_symbol_table[atom.functor] = ProbabilisticChoiceSet

\* an atom over a tuple-independent relation with constants only
GroundOverFacts(atom) ==
    /\ atom.functor \in DOMAIN call_symbol_table
    /\ call_symbol_table[atom.functor] = ProbabilisticFactSet
    /\ \A i \in DOMAIN atom.args : atom.args[i] \in ConstantTerms

MatchingAtoms == {atom \in ProjectedAtoms : OverChoice(atom) \/ GroundOverFacts(atom)}

\* the table with the symbols of the matching atoms as probabilistic facts
LocalTable ==
    [s \in DOMAIN call_symbol_table |->
        IF \E atom \in MatchingAtoms : atom.functor = s
        THEN ProbabilisticFactSet ELSE call_symbol_table[s]]

\* every variable but the free variables and those of the choice atoms
ProjectedAway ==
    (UNION {AtomVariables(atom) : atom \in ProjectedAtoms}
        \ extract_logic_free_variables(call_rule))
        \ UNION {AtomVariables(atom) : atom \in {a \in MatchingAtoms : OverChoice(a)}}

\* C26: for a conjunctive query the disjoint-projection rule applies
\* whenever an atom has constants in all its key positions, that is, the
\* atom is over a probabilistic-choice relation or over a tuple-independent
\* relation with all its arguments constants: the symbols of those atoms
\* become probabilistic facts in a local table, the query quantified over
\* every variable but the free variables and the choice atoms' variables is
\* lifted, and (True, DisjointProjection(plan, free variables)) is
\* returned; when no atom matches, (False, None) is returned.
C26_ConjunctiveRuleAppliesOnMatchingAtom ==
    OnConjunctiveQuery =>
        IF MatchingAtoms = {} THEN call_result = Pair(FALSE, None)
        ELSE /\ call_result.type = "Pair"
             /\ call_result.has_plan
             /\ call_result.plan.type = "DisjointProjection"
             /\ call_result.plan.attributes = extract_logic_free_variables(call_rule)
             /\ \E seq \in Orderings(ProjectedAway) :
                   call_result.plan.relation =
                       dalvi_suciu_lift(
                           WrapExistentials(seq,
                               ConjunctiveQueryAtoms(ProjectedDNF.formulas[1])),
                           LocalTable)

\* the rule raised on an atom of constants over a tuple-independent relation
C26_GroundFactAtomRaises ==
    /\ OnConjunctiveQuery
    /\ \E atom \in MatchingAtoms : GroundOverFacts(atom)
    /\ call_result = Raise("NeuroLangException")

\* the rule returned a disjoint projection for a query with a choice atom
C26_ChoiceAtomProjected ==
    /\ OnConjunctiveQuery
    /\ \E atom \in MatchingAtoms : OverChoice(atom)
    /\ call_result.type = "Pair" /\ call_result.has_plan
    /\ call_result.plan.type = "DisjointProjection"

\* disjoint_project took its disjunctive variant
OnDisjunctiveQuery == pc # "project" /\ Len(ProjectedDNF.formulas) >= 2

\* the disjuncts with an atom that has constants in all its key positions
MatchingDisjuncts ==
    {disjunct \in Range(ProjectedDNF.formulas) :
        \E atom \in Range(AtomList(disjunct)) :
            is_probabilistic_atom_with_constants_in_all_key_positions(
                atom, call_symbol_table)}

\* the plans of Q1, of the first disjunct of the union and of the
\* conjunction of all the disjuncts, each quantified over the variables
\* that are not free
ThreePlans(disjunct) ==
    <<dalvi_suciu_lift(DisjointProjectHead(ProjectedDNF, disjunct), call_symbol_table),
      dalvi_suciu_lift(DisjointProjectTail(ProjectedDNF), call_symbol_table),
      dalvi_suciu_lift(DisjointProjectHeadAndTail(ProjectedDNF), call_symbol_table)>>

\* the three plans of the disjunct are plans, none of them NonLiftable
RuleSucceedsOn(disjunct) ==
    \A i \in 1..3 : /\ ~ IsRaise(ThreePlans(disjunct)[i])
                    /\ ThreePlans(disjunct)[i].type # "NonLiftable"

\* the rule fails for the disjunct: one of the three plans is NonLiftable
\* and the plans lifted before it are plans
RuleFailsOn(disjunct) ==
    \E i \in 1..3 :
        /\ ThreePlans(disjunct)[i].type = "NonLiftable"
        /\ \A j \in 1..(i - 1) : /\ ~ IsRaise(ThreePlans(disjunct)[j])
                                 /\ ThreePlans(disjunct)[j].type # "NonLiftable"

\* C27: for a union of two or more disjuncts with a matching disjunct Q1,
\* the disjoint-projection rule called through disjoint_project lifts Q1,
\* the first disjunct of the union as the remainder and the conjunction of
\* all the disjuncts, each quantified over the non-free variables, and
\* returns (True, WeightedNaturalJoin of the three plans with the weights
\* +1, +1, -1); if one of the three plans is NonLiftable the rule fails for
\* that disjunct and the next matching disjunct is tried.
C27_DisjunctiveRuleJoinsThreePlans ==
    /\ OnDisjunctiveQuery
    /\ \E disjunct \in MatchingDisjuncts : RuleSucceedsOn(disjunct)
    /\ \A disjunct \in MatchingDisjuncts :
          RuleSucceedsOn(disjunct) \/ RuleFailsOn(disjunct)
    => \E disjunct \in MatchingDisjuncts :
          /\ RuleSucceedsOn(disjunct)
          /\ call_result =
                Pair(TRUE, WeightedNaturalJoin(ThreePlans(disjunct), <<1, 1, -1>>))

\* the three plans of a matching disjunct were lifted, none of them
\* NonLiftable, and disjoint_project returned None
C27_JoinOfThreePlansDropped ==
    /\ OnDisjunctiveQuery
    /\ \E disjunct \in MatchingDisjuncts : RuleSucceedsOn(disjunct)
    /\ \A disjunct \in MatchingDisjuncts :
          RuleSucceedsOn(disjunct) \/ RuleFailsOn(disjunct)
    /\ call_result = None

\* C28: when the disjunctive disjoint-projection rule fails for every
\* matching disjunct, or there is none, disjoint_project returns
\* (False, None), "rule not applicable", and dalvi_suciu_lift then returns
\* NonLiftable of the formula; no other outcome, such as an error in the
\* dispatcher, is possible.
C28_FailedRuleFallsThroughToNonLiftable ==
    /\ OnDisjunctiveQuery
    /\ \A disjunct \in MatchingDisjuncts : RuleFailsOn(disjunct)
    => /\ call_result = Pair(FALSE, None)
       /\ pc = "returned" => outcome = NonLiftable(call_rule)

\* no disjunct matches: (False, None) and NonLiftable
C28_NoMatchingDisjunctGivesNonLiftable ==
    /\ OnDisjunctiveQuery /\ pc = "returned"
    /\ MatchingDisjuncts = {}
    /\ call_result = Pair(FALSE, None)
    /\ outcome = NonLiftable(call_rule)

\* the rule failed on every matching disjunct on a NonLiftable plan,
\* disjoint_project returned None and the dispatcher raised TypeError
C28_FailedRuleEndsInTypeError ==
    /\ OnDisjunctiveQuery /\ pc = "returned"
    /\ MatchingDisjuncts # {}
    /\ \A disjunct \in MatchingDisjuncts : RuleFailsOn(disjunct)
    /\ call_result = None
    /\ outcome = Raise("TypeError")

-----------------------------------------------------------------------------
(* SpecMobius: _formulas_weights on lists of at most MaxElements elements  *)
(* under every reflexive and transitive containment oracle.  The loops of  *)
(* _formulas_weights are those of ContainmentStep and ContainmentLoop,     *)
(* with is_contained as a parameter: the set of the pairs (c0, c1) for     *)
(* which is_contained(c0, c1) holds.                                       *)

MaxElements == 3

\* the lists of n elements named 1, 2, ..., a new name being the successor
\* of a name already in the list: every list with repetitions, up to the
\* names of its elements
ElementLists(n) ==
    {list \in [1..n -> 1..n] :
        \A i \in 1..n :
            list[i] = 1 \/ \E j \in 1..(i - 1) : list[j] = list[i] - 1}

\* the reflexive and transitive relations on 1..n
Preorders(n) ==
    {contained \in {off \cup {<<e, e>> : e \in 1..n} :
                       off \in SUBSET {c \in (1..n) \X (1..n) : c[1] # c[2]}} :
        \A c, d \in contained :
            c[2] = d[1] => <<c[1], d[2]>> \in contained}

PowersetCall(formula_powerset, contained) ==
    [type |-> "powerset", formula_powerset |-> formula_powerset,
     is_contained |-> contained]

InitMobius ==
    /\ pc = "weights"
    /\ call_rule \in UNION {{PowersetCall(list, contained) :
                                list \in ElementLists(n), contained \in Preorders(n)} :
                            n \in 1..MaxElements}
    /\ call_symbol_table = None
    /\ shattered_query = None
    /\ call_result = None
    /\ outcome = None

\* the body of the loops, were c0 not looked up in the set of c1
OracleStepWithoutLookup(formula_powerset, contained, formula_containments, i0, i1) ==
    IF <<formula_powerset[i0], formula_powerset[i1]>> \in contained
    THEN [formula_containments EXCEPT ![i0] =
             @ \cup ({formula_powerset[i1]}
                       \cup (formula_containments[i1] \ {formula_powerset[i0]}))]
    ELSE formula_containments

\* the body of the loops of _formulas_weights: the pair (i0, c0), (i1, c1)
OracleStep(formula_powerset, contained, formula_containments, i0, i1) ==
    IF /\ formula_powerset[i0] \notin formula_containments[i1]
       /\ <<formula_powerset[i0], formula_powerset[i1]>> \in contained
    THEN [formula_containments EXCEPT ![i0] =
             @ \cup ({formula_powerset[i1]}
                       \cup (formula_containments[i1] \ {formula_powerset[i0]}))]
    ELSE formula_containments

\* the steps from k on, one after the other
RECURSIVE OracleRun(_, _, _, _, _)
OracleRun(formula_powerset, contained, steps, k, formula_containments) ==
    IF k > Len(steps) THEN formula_containments
    ELSE OracleRun(formula_powerset, contained, steps, k + 1,
                   OracleStep(formula_powerset, contained, formula_containments,
                              steps[k][1], steps[k][2]))

\* the dictionary fcs that _formulas_weights hands to mobius_weights
OracleContainments(formula_powerset, contained) ==
    ContainmentDictionary(formula_powerset,
        OracleRun(formula_powerset, contained,
                  ContainmentSteps(Len(formula_powerset)), 1,
                  Tuple([k \in DOMAIN formula_powerset |-> {}])))

\* _formulas_weights on a list of elements
FormulasWeightsCall ==
    /\ pc = "weights"
    /\ call_result' = Weighed(call_rule.formula_powerset,
                              OracleContainments(call_rule.formula_powerset,
                                                 call_rule.is_contained))
    /\ pc' = "weights_returned"
    /\ UNCHANGED <<call_rule, call_symbol_table, shattered_query, outcome>>

NextMobius == FormulasWeightsCall

SpecMobius == InitMobius /\ [][NextMobius]_vars

\* the dictionary of the call under way
RecordedContainments ==
    OracleContainments(call_rule.formula_powerset, call_rule.is_contained)

\* C29: for every list of powerset elements and every reflexive and
\* transitive containment oracle, oracles under which distinct elements are
\* contained in each other included, the containment sets recorded by
\* _formulas_weights are acyclic (no element is recorded, directly or
\* through a chain, as contained in itself), so that mobius_function
\* terminates and mobius_weights gives exactly one integer weight to every
\* distinct element.
C29_RecordedContainmentsAreAcyclic ==
    pc = "weights_returned" =>
        /\ IsAcyclic(RecordedContainments)
        /\ ~ IsRaise(call_result)
        /\ Range(call_result.keys) = Range(call_rule.formula_powerset)
        /\ Len(call_result.keys) = Cardinality(Range(call_rule.formula_powerset))
        /\ Len(call_result.weights) = Len(call_result.keys)
        /\ \A i \in DOMAIN call_result.weights : call_result.weights[i] \in Int

\* three elements, all contained in each other, one of them twice in the
\* list, were weighed
C29_Witness ==
    /\ pc = "weights_returned" /\ ~ IsRaise(call_result)
    /\ Len(call_rule.formula_powerset) = 3
    /\ Cardinality(Range(call_rule.formula_powerset)) = 2
    /\ {<<1, 2>>, <<2, 1>>} \subseteq call_rule.is_contained
    /\ Len(call_result.weights) = 2

-----------------------------------------------------------------------------
(* The hierarchical test of the fast path and the atoms over deterministic *)
(* relations, stated on SpecFast.                                          *)

\* whether solve_succ_query raises NotHierarchicalQueryException on a query
RaisesNotHierarchical(query, st) ==
    LET flat == FlatQuery(query)
        shattered == shatter_easy_probfacts(flat, st)
        kinds == ShatteredTable(flat, st)
    IN /\ ~ IsFalseBody(query.antecedent)
       /\ ~ IsRaise(shattered)
       /\ shattered.antecedent.type # "or"
       /\ LiteralsHaveFunctor(shattered)
       /\ _get_existential_variables_in_atoms(shattered, ProbabilisticFactSet, kinds)
            \ _get_existential_variables_in_atoms(shattered, ProbabilisticChoiceSet,
                                                  kinds) = {}
       /\ ~ is_hierarchical_without_self_joins(ProbabilisticBody(shattered, kinds))

\* the body of the query under way is a conjunction of atoms, or an atom
HasBodyOfAtoms ==
    /\ call_rule.type = "implication"
    /\ ~ IsFalseBody(call_rule.antecedent)
    /\ \A i \in DOMAIN Conjuncts : Conjuncts[i].type = "atom"

\* the positions of the body's atoms over Deterministic relations
DeterministicPositions ==
    {i \in DOMAIN Conjuncts :
        call_symbol_table[Conjuncts[i].functor] = DeterministicFactSet}

\* the atoms of the pool over Deterministic relations
DeterministicPool ==
    {atom \in AtomPool : call_symbol_table[atom.functor] = DeterministicFactSet}

\* the bodies got from the body under way by removing atoms over
\* Deterministic relations, by adding one, and by repeating one
BodiesUpToDeterministicAtoms ==
    {SelectSeq(Conjuncts, LAMBDA atom : \A i \in gone : Conjuncts[i] # atom) :
        gone \in SUBSET DeterministicPositions}
    \cup {Conjuncts \o <<atom>> : atom \in DeterministicPool}
    \cup {<<Conjuncts[i]>> \o Conjuncts : i \in DeterministicPositions}

\* the safe queries with the head of the query under way and these bodies
QueriesUpToDeterministicAtoms ==
    {Implication(call_rule.consequent, Conjunction(formulas)) :
        formulas \in {body \in BodiesUpToDeterministicAtoms :
                         /\ body # <<>>
                         /\ IsSafe(call_rule.consequent, Conjunction(body))}}

\* C30: in the fast path the hierarchical test is applied only to the atoms
\* of the shattered body over probabilistic-fact or probabilistic-choice
\* relations: adding, removing or repeating atoms over Deterministic
\* relations never changes whether NotHierarchicalQueryException is raised,
\* and the plan that is built translates the whole shattered body, its
\* atoms over Deterministic relations included.
C30_DeterministicAtomsLeaveTheTestAlone ==
    /\ FastEnded /\ call_rule.type = "implication" =>
          (outcome = Raise("NotHierarchicalQueryException"))
              = RaisesNotHierarchical(call_rule, call_symbol_table)
    /\ FastEnded /\ HasBodyOfAtoms =>
          \A query \in QueriesUpToDeterministicAtoms :
              RaisesNotHierarchical(query, call_symbol_table)
                  = (outcome = Raise("NotHierarchicalQueryException"))
    /\ pc \in {"fast_plan", "fast_solved"} =>
          /\ call_result = _project_on_query_head(
                               Translate(shattered_query.antecedent), shattered_query)
          /\ HasBodyOfAtoms =>
                \A i \in DeterministicPositions :
                    Conjuncts[i] \in Range(extract_logic_atoms(
                                               call_result.relation.formula))

\* a query with an atom over a Deterministic relation that holds both
\* variables of two atoms over one probabilistic relation was refused as
\* not hierarchical
C30_Witness ==
    /\ pc = "fast_rejected" /\ HasBodyOfAtoms
    /\ outcome = Raise("NotHierarchicalQueryException")
    /\ DeterministicPositions # {}
    /\ DeterministicPositions # DOMAIN Conjuncts
    /\ Cardinality(QueriesUpToDeterministicAtoms) >= 3

\* a plan was built of a body with an atom over a Deterministic relation
\* and an atom over a probabilistic relation
C30_WitnessOfPlan ==
    /\ pc = "fast_solved" /\ HasBodyOfAtoms
    /\ DeterministicPositions # {}
    /\ DeterministicPositions # DOMAIN Conjuncts

====
